---- MODULE Spec2Model ----
(***************************************************************************)
(* A model of whytchat-app's backend (src-tauri/src): the llama-server     *)
(* process supervisor and its log buffer (llama_install.rs), the download  *)
(* manager and the streaming completion decoder (main.rs), and the         *)
(* ingestion of a text into a dataset (rag.rs).                            *)
(*                                                                         *)
(* Every Tauri command is an async fn on a multi-threaded runtime, so any  *)
(* two commands may run concurrently.  A critical section that contains no *)
(* blocking call is one atomic action guarded by the lock being free;      *)
(* stop_server_process keeps the process lock over kill(), wait() and the  *)
(* log push, so it is several actions that hold procLock.                  *)
(***************************************************************************)
EXTENDS Integers, Sequences, FiniteSets, TLC

\* ------------------------------------------------------------------ bounds
\* calls of start_server_process the starter threads may make in all
MaxStarts == 2
\* calls of stop_server_process the stop command thread may make
MaxStops == 2
\* lines each reader thread may still read from its pipe
MaxLines == 2
\* calls of download_pack
MaxBegins == 2
\* bytes of the artifact the pack's URL serves
ArtifactLen == 2
\* bytes of the largest chunk the response stream delivers
MaxChunk == 2
\* lines of the completion response's body
MaxRecords == 3
\* characters of the longest text ingested
MaxTextLen == 2401
\* "\r\n" pairs at the head of a text ingested
MaxCrlf == 1
\* the largest k of a query
MaxK == 3
\* the largest path of a page of the scraped site (its pages are /, /1, ...)
MaxPath == 2
\* the largest max_depth a caller passes
MaxDepthArg == 4

\* ------------------------------------------------------- program constants
LOG_CAPACITY == 1000

\* --------------------------------------------------------------- threads
Starters == {"s1", "s2"}
StopCmds == {"k1"}
Teardown == "w"
Stoppers == StopCmds \cup {Teardown}
Threads == Starters \cup Stoppers
NoThread == "none"

Streams == {"stdout", "stderr"}
NoProc == 0
Pids == 1..MaxStarts

VARIABLES
    proc,          \* LLAMA_PROCESS: the tracked Child (its pid) or NoProc
    procLock,      \* the thread that holds the LLAMA_PROCESS mutex
    status,        \* the OS's view of every process the supervisor spawned
    pc,            \* each thread's position
    child,         \* each thread's local `child` (start: spawned, stop: taken)
    probe,         \* each thread's last try_wait outcome
    calls,         \* calls each thread has made
    ret,           \* what each thread's last call returned
    emitted,       \* "llama-server-status" events of each thread's last call
    destroyed,     \* WindowEvent::Destroyed has been delivered
    binaryExists,  \* the llama-server binary is on disk
    modelExists,   \* the model file is on disk
    cPc,           \* check_server_binary: its position
    cRet,          \* what check_server_binary last reported (running, pid)
    logBuffer,     \* LOG_BUFFER
    pushed,        \* every line pushed since the last clear_logs (history)
    nread,         \* lines each reader thread has read from its pipe
    budget,        \* lines each reader may still read
    entry,         \* DownloadManager.inner: the pack's DownloadEntry, if any
    flag,          \* the cancel flag (Arc<AtomicBool>) each download_pack made
    nbegins,       \* download_pack calls so far
    task,          \* the transfer task each download_pack spawned
    inode,         \* the content of every file a task created
    partPath,      \* "<filename>.part": the file it names, if any
    finalPath,     \* "<filename>": the file it names, if any
    installed,     \* "model-installed" events emitted
    dlRet,         \* what the last download_pack or cancel_download returned
    statusRet,     \* what the last download_status returned
    afterCancel,   \* chunks written to the partial file since cancel_download
                   \* returned Ok, counted up to 2; -1 once download_pack is
                   \* called again, and before any cancel (history)
    gPc,           \* generate_text: its position
    sent,          \* the bytes of the response body the server produces
    wire,          \* the bytes of it not yet read
    received,      \* the text of the reads so far, as decoded (history)
    buffer,        \* generate_text: buffer
    accumulated,   \* generate_text: accumulated
    finished,      \* generate_text: finished
    gEvents,       \* the events generate_text emitted to the window
    messages,      \* the assistant messages in the conversation's table
    gRet,          \* what generate_text returned
    rPc,           \* rag_ingest_text: its position
    rText,         \* rag_ingest_text: args.text
    chars,         \* rag_ingest_text: chars
    ri,            \* rag_ingest_text: i
    chunks,        \* rag_ingest_text: chunks
    vectors,       \* rag_ingest_text: payload.data
    chunksFile,    \* the dataset's chunks.json
    embedsFile,    \* the dataset's embeddings.json
    filesBefore,   \* the two files as the call in progress found them (history)
    rRet,          \* what rag_ingest_text returned
    qPc,           \* rag_query: its position
    qK,            \* rag_query: args.k
    qChunks,       \* rag_query: chunks
    qEmbeds,       \* rag_query: embeds
    qEmb,          \* rag_query: qemb
    qRet,          \* what rag_query returned
    registered,    \* the dataset's id is in datasets.json
    dirExists,     \* the dataset's directory exists
    regRet,        \* what rag_create_dataset or rag_delete_dataset returned
    sPc,           \* rag_scrape_url: its position
    sBase,         \* rag_scrape_url: args.base_url
    sArg,          \* rag_scrape_url: args.max_depth (NoDepth for None)
    visited,       \* rag_scrape_url: visited
    to_visit,      \* rag_scrape_url: to_visit
    all_text,      \* rag_scrape_url: all_text, as the URLs whose text it holds
    fetched,       \* every request for a page's text so far (history)
    sRet           \* what rag_scrape_url returned

statVars == <<cPc, cRet>>
supVars == <<proc, procLock, status, pc, child, probe, calls, ret, emitted,
             destroyed, binaryExists, modelExists, statVars>>
logVars == <<logBuffer, pushed, nread, budget>>
dlVars == <<entry, flag, nbegins, task, inode, partPath, finalPath, installed,
            dlRet, statusRet, afterCancel>>
genVars == <<gPc, sent, wire, received, buffer, accumulated, finished, gEvents,
             messages, gRet>>
qryVars == <<qPc, qK, qChunks, qEmbeds, qEmb, qRet>>
regVars == <<registered, dirExists, regRet>>
scrVars == <<sPc, sBase, sArg, visited, to_visit, all_text, fetched, sRet>>
ragVars == <<rPc, rText, chars, ri, chunks, vectors, chunksFile, embedsFile,
             filesBefore, rRet, qryVars, regVars, scrVars>>
vars == <<supVars, logVars, dlVars, genVars, ragVars>>

\* ------------------------------------------------------------ log buffer
\* format!("[stdout] {}", line): the k-th line of a stream of process p
Line(s, p, k) == [tag |-> s, pid |-> p, n |-> k]
StoppedLine == [tag |-> "info", pid |-> NoProc, n |-> 0]

\* a push that evicts only once the buffer is over capacity
PushLogLineOffByOne(buf, line) ==
    Append(IF Len(buf) > LOG_CAPACITY THEN Tail(buf) ELSE buf, line)

\* push_log_line: evict the oldest line at capacity, then append
PushLogLine(buf, line) ==
    Append(IF Len(buf) >= LOG_CAPACITY THEN Tail(buf) ELSE buf, line)

\* ----------------------------------------------------------- processes
Live(p) == status[p] \in {"alive", "killed"}

\* std::process::Child::try_wait: Ok(None) while the process runs,
\* Ok(Some(status)) once it has exited (the status is cached after the first
\* reap), or an OS error
TryWaitOutcomes(p) ==
    IF status[p] = "reaped" THEN {"exited"}
    ELSE {IF Live(p) THEN "running" ELSE "exited", "err"}

Reap(p) == [status EXCEPT ![p] = "reaped"]

FreshPid == CHOOSE p \in Pids : status[p] = "unborn"
                                /\ \A q \in Pids : q < p => status[q] # "unborn"

Ret(k, p) == [kind |-> k, pid |-> p]

Return(t, k, p) ==
    /\ ret' = [ret EXCEPT ![t] = Ret(k, p)]
    /\ pc' = [pc EXCEPT ![t] = "idle"]

Goto(t, l) == pc' = [pc EXCEPT ![t] = l]

Emit(t, e) == emitted' = [emitted EXCEPT ![t] = Append(@, e)]

RECURSIVE Sum(_, _)
Sum(f, S) == IF S = {} THEN 0
             ELSE LET x == CHOOSE y \in S : TRUE IN f[x] + Sum(f, S \ {x})

\* a command is invoked from the window, so only while the window exists; the
\* Destroyed handler runs once
CanCall(t) ==
    /\ pc[t] = "idle"
    /\ IF t = Teardown THEN destroyed /\ calls[t] = 0
       ELSE IF t \in Starters THEN ~destroyed /\ Sum(calls, Starters) < MaxStarts
       ELSE ~destroyed /\ calls[t] < MaxStops

\* ------------------------------------------------- start_server_process
\* a start that treats a child that still runs as gone
OnStillRunningRespawn(t) ==
    /\ proc' = NoProc
    /\ Goto(t, "s_pre")
    /\ UNCHANGED <<status, ret>>

\* lines 318-323: the tracked child still runs; return its pid
OnStillRunning(t) ==
    /\ Return(t, "AlreadyRunning", proc)
    /\ UNCHANGED <<proc, status>>

\* lines 311-334: under the lock, probe the tracked child
StartCheck(t) ==
    /\ CanCall(t)
    /\ procLock = NoThread
    /\ calls' = [calls EXCEPT ![t] = @ + 1]
    /\ emitted' = [emitted EXCEPT ![t] = <<>>]
    /\ child' = [child EXCEPT ![t] = NoProc]
    /\ IF proc = NoProc
       THEN /\ probe' = [probe EXCEPT ![t] = "none"]
            /\ Goto(t, "s_pre")
            /\ UNCHANGED <<proc, status, ret>>
       ELSE \E o \in TryWaitOutcomes(proc) :
            /\ probe' = [probe EXCEPT ![t] = o]
            /\ CASE o = "running" -> OnStillRunning(t)
                 [] o = "exited" ->
                      /\ status' = Reap(proc)
                      /\ proc' = NoProc
                      /\ Goto(t, "s_pre")
                      /\ UNCHANGED ret
                 [] o = "err" ->
                      /\ proc' = NoProc
                      /\ Goto(t, "s_pre")
                      /\ UNCHANGED <<status, ret>>
    /\ UNCHANGED <<procLock, destroyed, binaryExists, modelExists, logVars, statVars, dlVars, genVars, ragVars>>

\* a precheck that looks for the model before the binary
StartPrecheckModelFirst(t) ==
    /\ pc[t] = "s_pre"
    /\ IF ~modelExists
       THEN Return(t, "ModelMissing", NoProc) /\ UNCHANGED emitted
       ELSE IF ~binaryExists
       THEN Return(t, "BinaryMissing", NoProc) /\ UNCHANGED emitted
       ELSE Goto(t, "s_spawn") /\ Emit(t, "starting") /\ UNCHANGED ret
    /\ UNCHANGED <<proc, procLock, status, child, probe, calls, destroyed,
                   binaryExists, modelExists, logVars, statVars, dlVars, genVars, ragVars>>

\* lines 336-350: the binary and the model must exist; emit "starting"
StartPrecheck(t) ==
    /\ pc[t] = "s_pre"
    /\ IF ~binaryExists
       THEN Return(t, "BinaryMissing", NoProc) /\ UNCHANGED emitted
       ELSE IF ~modelExists
       THEN Return(t, "ModelMissing", NoProc) /\ UNCHANGED emitted
       ELSE Goto(t, "s_spawn") /\ Emit(t, "starting") /\ UNCHANGED ret
    /\ UNCHANGED <<proc, procLock, status, child, probe, calls, destroyed,
                   binaryExists, modelExists, logVars, statVars, dlVars, genVars, ragVars>>

\* lines 425-452: spawn the server and its two reader threads
StartSpawn(t) ==
    /\ pc[t] = "s_spawn"
    /\ \E ok \in BOOLEAN :
         IF ok
         THEN /\ status' = [status EXCEPT ![FreshPid] = "alive"]
              /\ child' = [child EXCEPT ![t] = FreshPid]
              /\ budget' = [budget EXCEPT ![FreshPid] = [s \in Streams |-> MaxLines]]
              /\ Goto(t, "s_store")
              /\ UNCHANGED ret
         ELSE /\ Return(t, "SpawnFailed", NoProc)
              /\ UNCHANGED <<status, child, budget>>
    /\ UNCHANGED <<proc, procLock, probe, calls, emitted, destroyed,
                   binaryExists, modelExists, logBuffer, pushed, nread, statVars, dlVars, genVars, ragVars>>

\* lines 454-458: under the lock, store the child (a child already stored is
\* dropped, which neither kills nor reaps it)
StartStore(t) ==
    /\ pc[t] = "s_store"
    /\ procLock = NoThread
    /\ proc' = child[t]
    /\ Goto(t, "s_sleep")
    /\ UNCHANGED <<procLock, status, child, probe, calls, ret, emitted, destroyed,
                   binaryExists, modelExists, logVars, statVars, dlVars, genVars, ragVars>>

\* lines 460-483: after the 1.5 s sleep, under the lock, probe whatever child
\* is tracked now
StartGraceCheck(t) ==
    /\ pc[t] = "s_sleep"
    /\ procLock = NoThread
    /\ IF proc = NoProc
       THEN /\ probe' = [probe EXCEPT ![t] = "none"]
            /\ Goto(t, "s_run")
            /\ UNCHANGED <<proc, status, ret>>
       ELSE \E o \in TryWaitOutcomes(proc) :
            /\ probe' = [probe EXCEPT ![t] = o]
            /\ IF o = "exited"
               THEN /\ status' = Reap(proc)
                    /\ proc' = NoProc
                    /\ Return(t, "ImmediateExit", NoProc)
               ELSE /\ Goto(t, "s_run")
                    /\ UNCHANGED <<proc, status, ret>>
    /\ UNCHANGED <<procLock, child, calls, emitted, destroyed,
                   binaryExists, modelExists, logVars, statVars, dlVars, genVars, ragVars>>

\* lines 485-487: emit "running" and return the spawned pid
StartRunning(t) ==
    /\ pc[t] = "s_run"
    /\ Emit(t, "running")
    /\ Return(t, "Running", child[t])
    /\ UNCHANGED <<proc, procLock, status, child, probe, calls, destroyed,
                   binaryExists, modelExists, logVars, statVars, dlVars, genVars, ragVars>>

\* -------------------------------------------------- stop_server_process
\* a stop that reports an error when nothing is tracked
StopNothingTrackedErr(t) ==
    /\ Return(t, "NotRunning", NoProc)
    /\ emitted' = [emitted EXCEPT ![t] = <<>>]
    /\ child' = [child EXCEPT ![t] = NoProc]
    /\ UNCHANGED <<proc, procLock>>

\* lines 532-536: nothing is tracked; return Ok
StopNothingTracked(t) ==
    /\ Return(t, "StopNoop", NoProc)
    /\ emitted' = [emitted EXCEPT ![t] = <<>>]
    /\ child' = [child EXCEPT ![t] = NoProc]
    /\ UNCHANGED <<proc, procLock>>

\* lines 494-501: lock, take the child out of the handle, emit "stopping"
StopTake(t) ==
    /\ CanCall(t)
    /\ procLock = NoThread
    /\ calls' = [calls EXCEPT ![t] = @ + 1]
    /\ IF proc = NoProc
       THEN StopNothingTracked(t)
       ELSE /\ child' = [child EXCEPT ![t] = proc]
            /\ proc' = NoProc
            /\ procLock' = t
            /\ emitted' = [emitted EXCEPT ![t] = <<"stopping">>]
            /\ Goto(t, "k_kill")
            /\ UNCHANGED ret
    /\ UNCHANGED <<status, probe, destroyed, binaryExists, modelExists, logVars, statVars, dlVars, genVars, ragVars>>

\* a stop whose failed kill returns with the LLAMA_PROCESS lock still held
StopKillKeepsLock(t) ==
    /\ pc[t] = "k_kill"
    /\ \E ok \in BOOLEAN :
         IF ok
         THEN /\ status' = [status EXCEPT ![child[t]] =
                               IF @ = "alive" THEN "killed" ELSE @]
              /\ Goto(t, "k_wait")
              /\ UNCHANGED <<ret, procLock>>
         ELSE /\ Return(t, "KillFailed", child[t])
              /\ UNCHANGED <<status, procLock>>
    /\ UNCHANGED <<proc, child, probe, calls, emitted, destroyed,
                   binaryExists, modelExists, logVars, statVars, dlVars, genVars, ragVars>>

\* lines 503-511: child.kill()
StopKill(t) ==
    /\ pc[t] = "k_kill"
    /\ \E ok \in BOOLEAN :
         IF ok
         THEN /\ status' = [status EXCEPT ![child[t]] =
                               IF @ = "alive" THEN "killed" ELSE @]
              /\ Goto(t, "k_wait")
              /\ UNCHANGED <<ret, procLock>>
         ELSE /\ Return(t, "KillFailed", child[t])
              /\ procLock' = NoThread
              /\ UNCHANGED status
    /\ UNCHANGED <<proc, child, probe, calls, emitted, destroyed,
                   binaryExists, modelExists, logVars, statVars, dlVars, genVars, ragVars>>

\* a stop that does not wait for the process to exit
StopWaitNoBlock(t) ==
    /\ pc[t] = "k_wait"
    /\ Emit(t, "stopped")
    /\ Goto(t, "k_push")
    /\ UNCHANGED <<proc, procLock, status, child, probe, calls, ret, destroyed,
                   binaryExists, modelExists, logVars, statVars, dlVars, genVars, ragVars>>

\* lines 513-523: child.wait() blocks until the process has exited; emit
\* "stopped"
StopWait(t) ==
    /\ pc[t] = "k_wait"
    /\ \E ok \in BOOLEAN :
         IF ok
         THEN /\ ~Live(child[t])
              /\ status' = Reap(child[t])
              /\ Emit(t, "stopped")
              /\ Goto(t, "k_push")
              /\ UNCHANGED <<ret, procLock>>
         ELSE /\ Return(t, "WaitFailed", child[t])
              /\ procLock' = NoThread
              /\ UNCHANGED <<status, emitted>>
    /\ UNCHANGED <<proc, child, probe, calls, destroyed,
                   binaryExists, modelExists, logVars, statVars, dlVars, genVars, ragVars>>

\* lines 524-531: push the informational line, return Ok, drop the guard
StopPush(t) ==
    /\ pc[t] = "k_push"
    /\ logBuffer' = PushLogLine(logBuffer, StoppedLine)
    /\ pushed' = Append(pushed, StoppedLine)
    /\ Return(t, "Stopped", child[t])
    /\ procLock' = NoThread
    /\ UNCHANGED <<proc, status, child, probe, calls, emitted, destroyed,
                   binaryExists, modelExists, nread, budget, statVars, dlVars, genVars, ragVars>>

\* ------------------------------------------------------------ environment
\* main.rs lines 266-271: the window is destroyed; the handler calls stop
WindowDestroyed ==
    /\ ~destroyed
    /\ destroyed' = TRUE
    /\ UNCHANGED <<proc, procLock, status, pc, child, probe, calls, ret, emitted,
                   binaryExists, modelExists, logVars, statVars, dlVars, genVars, ragVars>>

\* extract_server_binary puts the llama-server binary in place
InstallBinary ==
    /\ ~binaryExists
    /\ binaryExists' = TRUE
    /\ UNCHANGED <<proc, procLock, status, pc, child, probe, calls, ret, emitted,
                   destroyed, modelExists, logVars, statVars, dlVars, genVars, ragVars>>

\* a finished download_pack or import_pack puts the model file in place
InstallModel ==
    /\ ~modelExists
    /\ modelExists' = TRUE
    /\ UNCHANGED <<proc, procLock, status, pc, child, probe, calls, ret, emitted,
                   destroyed, binaryExists, logVars, statVars, dlVars, genVars, ragVars>>

\* a spawned process exits, by itself or because it was killed
ProcExit(p) ==
    /\ Live(p)
    /\ status' = [status EXCEPT ![p] = "exited"]
    /\ UNCHANGED <<proc, procLock, pc, child, probe, calls, ret, emitted,
                   destroyed, binaryExists, modelExists, logVars, statVars, dlVars, genVars, ragVars>>

\* ------------------------------------------------ log readers, clear_logs
\* lines 432-452: a reader thread reads one more line of its pipe and pushes it
ReaderPush(p, s) ==
    /\ status[p] # "unborn"
    /\ budget[p][s] > 0
    /\ budget' = [budget EXCEPT ![p][s] = @ - 1]
    /\ nread' = [nread EXCEPT ![p][s] = @ + 1]
    /\ LET line == Line(s, p, nread[p][s] + 1)
       IN /\ logBuffer' = PushLogLine(logBuffer, line)
          /\ pushed' = Append(pushed, line)
    /\ UNCHANGED <<supVars, dlVars, genVars, ragVars>>

\* lines 78-82: the clear_llama_logs command
ClearLogs ==
    /\ ~destroyed
    /\ logBuffer' = <<>>
    /\ pushed' = <<>>
    /\ UNCHANGED <<supVars, nread, budget, dlVars, genVars, ragVars>>

\* ------------------------------------- check_server_binary, get_logs
NoReport == [running |-> FALSE, pid |-> NoProc]

\* lines 104-120: the status command is called and looks for the binary;
\* next it requests the LLAMA_PROCESS lock
CheckCall ==
    /\ ~destroyed
    /\ cPc = "idle"
    /\ cPc' = "c_lock"
    /\ UNCHANGED <<proc, procLock, status, pc, child, probe, calls, ret, emitted,
                   destroyed, binaryExists, modelExists, cRet,
                   logVars, dlVars, genVars, ragVars>>

\* lines 122-135: under the lock, report whether a child is tracked, and
\* its pid
CheckLocked ==
    /\ cPc = "c_lock"
    /\ procLock = NoThread
    /\ cRet' = [running |-> proc # NoProc, pid |-> proc]
    /\ cPc' = "idle"
    /\ UNCHANGED <<proc, procLock, status, pc, child, probe, calls, ret, emitted,
                   destroyed, binaryExists, modelExists,
                   logVars, dlVars, genVars, ragVars>>

\* lines 72-76: under the LOG_BUFFER lock, copy the buffer for the caller;
\* nothing the program keeps changes
GetLogsSnapshot ==
    /\ ~destroyed
    /\ UNCHANGED vars

\* ====================================================== download manager
\* main.rs, download_pack / cancel_download, for one pack of the catalogue
\* whose URL is remote.  Every await of the transfer task is a suspension
\* point, so the task is one action per await; the map lock is never held
\* over an await.  Files are modelled as the OS keeps them: a path names a
\* file, an open handle keeps its file whatever happens to the path.
Tasks == 1..MaxBegins
NoFile == 0
Artifact == [i \in 1..ArtifactLen |-> i]
\* PackSource.size_bytes
SizeBytes == ArtifactLen
Unknown == -1

NoEntry == [status |-> "absent", total |-> Unknown, written |-> 0,
            error |-> "", cancel |-> 0]
\* ioerr: the I/O error the task has met, "" when none
NoTask == [pc |-> "none", resume |-> 0, total |-> Unknown, body |-> <<>>,
           ino |-> NoFile, append |-> FALSE, pos |-> 0, ioerr |-> ""]

Active(b) == task[b].pc \in {"meta", "send", "open", "loop"}

Min(a, b) == IF a < b THEN a ELSE b
Max(a, b) == IF a < b THEN b ELSE a

\* a write of data at offset pos (a gap is filled with zero bytes)
WriteAt(content, pos, data) ==
    [i \in 1..Max(Len(content), pos + Len(data)) |->
        IF i > pos /\ i <= pos + Len(data) THEN data[i - pos]
        ELSE IF i <= Len(content) THEN content[i]
        ELSE 0]

\* what the server may answer to a request for the artifact, with a Range
\* header "bytes=L-" when L > 0: an error (no connection, an error status,
\* 416 when L is not inside the artifact), 206 with the bytes from L on, or
\* 200 with the whole artifact when it ignores the header
Responses(L) ==
    {[ok |-> FALSE, body |-> <<>>]}
    \cup {[ok |-> TRUE, body |-> Artifact]}
    \cup (IF L > 0 /\ L < ArtifactLen
          THEN {[ok |-> TRUE, body |-> SubSeq(Artifact, L + 1, ArtifactLen)]}
          ELSE {})

\* a transfer is started even when the final file exists (not what the code
\* does)
DownloadPackAlwaysStarts ==
    /\ nbegins < MaxBegins
    /\ nbegins' = nbegins + 1
    /\ entry' = [status |-> "running", total |-> SizeBytes,
                 written |-> 0, error |-> "", cancel |-> nbegins + 1]
    /\ task' = [task EXCEPT ![nbegins + 1] = [NoTask EXCEPT !.pc = "meta"]]
    /\ dlRet' = "started"
    /\ afterCancel' = -1
    /\ UNCHANGED <<flag, inode, partPath, finalPath, installed,
                   statusRet, supVars, logVars, genVars, ragVars>>

\* lines 349-395 and 491: download_pack
DownloadPack ==
    /\ nbegins < MaxBegins
    /\ nbegins' = nbegins + 1
    /\ IF finalPath # NoFile
       THEN /\ entry' = [status |-> "done", total |-> SizeBytes,
                         written |-> SizeBytes, error |-> "",
                         cancel |-> nbegins + 1]
            /\ dlRet' = "already_installed"
            /\ UNCHANGED task
       ELSE /\ entry' = [status |-> "running", total |-> SizeBytes,
                         written |-> 0, error |-> "", cancel |-> nbegins + 1]
            /\ task' = [task EXCEPT ![nbegins + 1] = [NoTask EXCEPT !.pc = "meta"]]
            /\ dlRet' = "started"
    /\ afterCancel' = -1
    /\ UNCHANGED <<flag, inode, partPath, finalPath, installed,
                   statusRet, supVars, logVars, genVars, ragVars>>

\* lines 506-514: cancel_download
CancelDownload ==
    /\ IF entry.status # "absent"
       THEN /\ flag' = [flag EXCEPT ![entry.cancel] = TRUE]
            /\ dlRet' = "cancel_ok"
            /\ afterCancel' = 0
       ELSE /\ dlRet' = "not_found"
            /\ UNCHANGED <<flag, afterCancel>>
    /\ UNCHANGED <<entry, nbegins, task, inode, partPath, finalPath, installed,
                   statusRet, supVars, logVars, genVars, ragVars>>

\* DownloadState, as download_status returns it
StateOf(e) == [status |-> e.status, total |-> e.total, written |-> e.written,
               error |-> e.error]
NoStatus == [kind |-> "none", state |-> StateOf(NoEntry)]

\* an unknown key has a default state (not what the code does)
DownloadStatusDefault ==
    /\ statusRet' = [kind |-> "ok", state |-> StateOf(entry)]
    /\ UNCHANGED <<entry, flag, nbegins, task, inode, partPath, finalPath,
                   installed, dlRet, afterCancel, supVars, logVars, genVars,
                   ragVars>>

\* lines 494-504: download_status
DownloadStatus ==
    /\ statusRet' = IF entry.status # "absent"
                    THEN [kind |-> "ok", state |-> StateOf(entry)]
                    ELSE [kind |-> "not_found", state |-> StateOf(NoEntry)]
    /\ UNCHANGED <<entry, flag, nbegins, task, inode, partPath, finalPath,
                   installed, dlRet, afterCancel, supVars, logVars, genVars,
                   ragVars>>

\* lines 403-406: the length of the partial file, if there is one
TaskMetadata(b) ==
    /\ task[b].pc = "meta"
    /\ task' = [task EXCEPT ![b].pc = "send",
                            ![b].resume = IF partPath # NoFile
                                          THEN Len(inode[partPath]) ELSE 0]
    /\ UNCHANGED <<entry, flag, nbegins, inode, partPath, finalPath, installed,
                   dlRet, statusRet, afterCancel, supVars, logVars, genVars,
                   ragVars>>

\* lines 408-432: send the request; record total and written in the entry
TaskSend(b) ==
    /\ task[b].pc = "send"
    /\ \E r \in Responses(task[b].resume), known \in BOOLEAN :
         IF r.ok
         THEN LET total == IF known THEN Len(r.body) + task[b].resume
                           ELSE Unknown
              IN /\ task' = [task EXCEPT ![b].pc = "open", ![b].body = r.body,
                                         ![b].total = total]
                 /\ entry' = [entry EXCEPT !.total = total,
                                           !.written = task[b].resume]
         ELSE /\ ~known
              /\ task' = [task EXCEPT ![b].pc = "error",
                                      ![b].ioerr = "transport"]
              /\ entry' = [entry EXCEPT !.status = "error", !.error = "transport"]
    /\ UNCHANGED <<flag, nbegins, inode, partPath, finalPath, installed,
                   dlRet, statusRet, afterCancel, supVars, logVars, genVars,
                   ragVars>>

\* lines 434-443: open the partial file to append when resuming, create (or
\* truncate) it otherwise; a failure is an unwrap() that panics the task
TaskOpen(b) ==
    /\ task[b].pc = "open"
    /\ \E ok \in BOOLEAN :
         IF ok /\ task[b].resume > 0 /\ partPath # NoFile
         THEN /\ task' = [task EXCEPT ![b].pc = "loop", ![b].ino = partPath,
                                      ![b].append = TRUE]
              /\ UNCHANGED <<inode, partPath>>
         ELSE IF ok /\ task[b].resume = 0
         THEN LET f == IF partPath # NoFile THEN partPath ELSE b
              IN /\ inode' = [inode EXCEPT ![f] = <<>>]
                 /\ partPath' = f
                 /\ task' = [task EXCEPT ![b].pc = "loop", ![b].ino = f]
         ELSE /\ task' = [task EXCEPT ![b].pc = "panicked",
                                      ![b].ioerr = "open failed"]
              /\ UNCHANGED <<inode, partPath>>
    /\ UNCHANGED <<entry, flag, nbegins, finalPath, installed,
                   dlRet, statusRet, afterCancel, supVars, logVars, genVars,
                   ragVars>>

\* lines 446-453: the flag is set when a chunk arrives
TaskCancelled(b) ==
    /\ partPath' = NoFile
    /\ entry' = [entry EXCEPT !.status = "canceled"]
    /\ task' = [task EXCEPT ![b].pc = "canceled"]
    /\ UNCHANGED <<inode, afterCancel>>

\* lines 455-468: write the chunk, advance written
TaskWrite(b, data) ==
    \E ok \in BOOLEAN :
      IF ok
      THEN /\ inode' = [inode EXCEPT ![task[b].ino] =
                          IF task[b].append THEN @ \o data
                          ELSE WriteAt(@, task[b].pos, data)]
           /\ task' = [task EXCEPT
                         ![b].pos = @ + Len(data),
                         ![b].body = SubSeq(@, Len(data) + 1, Len(@))]
           /\ entry' = [entry EXCEPT !.written = @ + Len(data)]
           /\ afterCancel' = IF afterCancel >= 0 /\ task[b].ino = partPath
                             THEN Min(afterCancel + 1, 2) ELSE afterCancel
           /\ UNCHANGED partPath
      ELSE /\ task' = [task EXCEPT ![b].pc = "error",
                                   ![b].ioerr = "write failed"]
           /\ entry' = [entry EXCEPT !.status = "error", !.error = "write failed"]
           /\ UNCHANGED <<inode, partPath, afterCancel>>

\* lines 445-478: stream.next() yields a chunk or a transport error
TaskChunk(b) ==
    /\ task[b].pc = "loop"
    /\ task[b].body # <<>>
    /\ IF flag[b]
       THEN TaskCancelled(b)
       ELSE \/ \E c \in 1..Min(MaxChunk, Len(task[b].body)) :
                 TaskWrite(b, SubSeq(task[b].body, 1, c))
            \/ /\ task' = [task EXCEPT ![b].pc = "error",
                                       ![b].ioerr = "transport"]
               /\ entry' = [entry EXCEPT !.status = "error", !.error = "transport"]
               /\ UNCHANGED <<inode, partPath, afterCancel>>
    /\ UNCHANGED <<flag, nbegins, finalPath, installed, dlRet,
                   statusRet, supVars, logVars, genVars, ragVars>>

\* lines 480-488: the stream has ended; flush (a write error it reports is
\* discarded), rename the partial file to the final name (an error is
\* ignored), mark done, emit "model-installed"
TaskFinish(b) ==
    /\ task[b].pc = "loop"
    /\ task[b].body = <<>>
    /\ \E flushed \in BOOLEAN :
         task' = [task EXCEPT ![b].pc = "done",
                              ![b].ioerr = IF flushed THEN "" ELSE "flush failed"]
    /\ \E renamed \in BOOLEAN :
         IF partPath # NoFile /\ renamed
         THEN finalPath' = partPath /\ partPath' = NoFile
         ELSE UNCHANGED <<finalPath, partPath>>
    /\ entry' = [entry EXCEPT !.status = "done", !.total = task[b].total]
    /\ installed' = installed + 1
    /\ UNCHANGED <<flag, nbegins, inode, dlRet, statusRet, afterCancel,
                   supVars, logVars, genVars, ragVars>>

InitDl ==
    /\ entry = NoEntry
    /\ flag = [b \in Tasks |-> FALSE]
    /\ nbegins = 0
    /\ task = [b \in Tasks |-> NoTask]
    /\ inode = [f \in Tasks |-> <<>>]
    /\ partPath = NoFile
    /\ finalPath = NoFile
    /\ installed = 0
    /\ dlRet = "none"
    /\ statusRet = NoStatus
    /\ afterCancel = -1

NextDl ==
    \/ DownloadPack
    \/ CancelDownload
    \/ \E b \in Tasks : TaskMetadata(b)
    \/ \E b \in Tasks : TaskSend(b)
    \/ \E b \in Tasks : TaskOpen(b)
    \/ \E b \in Tasks : TaskChunk(b)
    \/ \E b \in Tasks : TaskFinish(b)

\* ================================================== streaming completion
\* main.rs, generate_text: one call.  The response body is a sequence of
\* bytes; the model's byte is a token of the event stream: the prefix
\* "data: ", a line feed, a carriage return, the sentinel "[DONE]", the
\* opening and the closing of the JSON object, one choice of its "choices"
\* array (c: the delta's content, <<>> when absent or empty; f: the finish
\* reason), or a line's text that has no data prefix.  A choice whose content
\* has a character of two bytes is two tokens on the wire, "hi" ending with
\* the character's first byte and "lo" beginning with its second.
Tok(t) == [t |-> t, c |-> <<>>, f |-> ""]
Choice(c, f) == [t |-> "choice", c |-> c, f |-> f]
Hi(c, f) == [t |-> "hi", c |-> c, f |-> f]
Lo(c, f) == [t |-> "lo", c |-> c, f |-> f]

\* a data record whose JSON is an object with these choices
Data(choices) == <<Tok("data"), Tok("open")>> \o choices \o <<Tok("close")>>

\* the lines the server may send: a fragment; a fragment with a two-byte
\* character and a finish reason that does not finish; a fragment with the
\* finish reason "stop", the line ended by "\r\n"; a record of two choices;
\* a record whose JSON is cut short; the sentinel; a line with no data prefix
\* and a blank line; a fragment whose line has no end
Records ==
    { Data(<<Choice(<<"a">>, "null")>>) \o <<Tok("lf")>>,
      Data(<<Hi(<<"U">>, "other"), Lo(<<"U">>, "other")>>) \o <<Tok("lf")>>,
      Data(<<Choice(<<"c">>, "stop")>>) \o <<Tok("cr"), Tok("lf")>>,
      Data(<<Choice(<<"e">>, "null"), Choice(<<"f">>, "null")>>) \o <<Tok("lf")>>,
      <<Tok("data"), Tok("open"), Choice(<<"x">>, "null"), Tok("lf")>>,
      <<Tok("data"), Tok("done"), Tok("lf")>>,
      <<Tok("comment"), Tok("lf"), Tok("cr"), Tok("lf")>>,
      Data(<<Choice(<<"z">>, "null")>>) }

RECURSIVE Flatten(_)
Flatten(ss) == IF ss = <<>> THEN <<>> ELSE Head(ss) \o Flatten(Tail(ss))

\* the response bodies: up to MaxRecords lines
Bodies == {Flatten(ss) : ss \in UNION {[1..n -> Records] : n \in 0..MaxRecords}}

\* line 907, String::from_utf8_lossy on one read: a two-byte character that
\* is whole in the read is decoded; a first byte that ends the read and a
\* second byte that begins it are each replaced by U+FFFD, which leaves the
\* halves "hi" and "lo" in the text
RECURSIVE Utf8Lossy(_)
Utf8Lossy(read) ==
    IF read = <<>> THEN <<>>
    ELSE IF read[1].t = "hi" /\ Len(read) >= 2 /\ read[2].t = "lo"
    THEN <<Choice(read[1].c, read[1].f)>> \o Utf8Lossy(SubSeq(read, 3, Len(read)))
    ELSE <<read[1]>> \o Utf8Lossy(Tail(read))

\* the content of a choice whose two-byte character was replaced
Garble(c) == [i \in 1..(2 * Len(c)) |-> "?"]

\* line 912, buffer.find('\n'): the first line feed, 0 when none
FindLf(b) ==
    IF \E i \in 1..Len(b) : b[i].t = "lf"
    THEN CHOOSE i \in 1..Len(b) :
            b[i].t = "lf" /\ \A j \in 1..(i - 1) : b[j].t # "lf"
    ELSE 0

\* line 913, str::trim
Trim(line) ==
    LET keep == {i \in 1..Len(line) : line[i].t # "cr"}
    IN IF keep = {} THEN <<>>
       ELSE SubSeq(line, CHOOSE i \in keep : \A j \in keep : i <= j,
                         CHOOSE i \in keep : \A j \in keep : j <= i)

\* the "choices" array of the JSON object, when every element is a choice
RECURSIVE ParseChoices(_)
ParseChoices(m) ==
    IF m = <<>> THEN [ok |-> TRUE, choices |-> <<>>]
    ELSE IF m[1].t = "choice"
    THEN LET r == ParseChoices(Tail(m))
         IN [ok |-> r.ok,
             choices |-> <<[c |-> m[1].c, f |-> m[1].f]>> \o r.choices]
    ELSE IF m[1].t = "hi" /\ Len(m) >= 2 /\ m[2].t = "lo"
    THEN LET r == ParseChoices(SubSeq(m, 3, Len(m)))
         IN [ok |-> r.ok,
             choices |-> <<[c |-> Garble(m[1].c), f |-> m[1].f]>> \o r.choices]
    ELSE [ok |-> FALSE, choices |-> <<>>]

\* line 930, serde_json::from_str::<SSEChunk>
ParseSse(json) ==
    IF Len(json) >= 2 /\ json[1].t = "open" /\ json[Len(json)].t = "close"
    THEN ParseChoices(SubSeq(json, 2, Len(json) - 1))
    ELSE [ok |-> FALSE, choices |-> <<>>]

Event(type, payload) == [type |-> type, payload |-> payload]

\* the decoder's locals: buffer, accumulated, the events emitted, finished
\* lines 955-959: a parse error aborts the decoding (not what the code does)
OnParseErrorAbort(d) == [d EXCEPT !.fin = TRUE]

\* lines 955-959: a parse error is logged and the record skipped
OnParseError(d) == d

\* the first choice's content is emitted twice (not what the code does)
OnChunkTwice(d, choices) ==
    IF choices = <<>> THEN d
    ELSE LET ch == choices[1]
             d1 == IF ch.c # <<>>
                   THEN [d EXCEPT !.acc = @ \o ch.c,
                                  !.ev = @ \o <<Event("generation-chunk", ch.c),
                                                Event("generation-chunk", ch.c)>>]
                   ELSE d
         IN IF ch.f \in {"stop", "length"} THEN [d1 EXCEPT !.fin = TRUE] ELSE d1

\* lines 931-954: the first choice's content is accumulated and emitted when
\* not empty; a finish reason "stop" or "length" finishes the stream
OnChunk(d, choices) ==
    IF choices = <<>> THEN d
    ELSE LET ch == choices[1]
             d1 == IF ch.c # <<>>
                   THEN [d EXCEPT !.acc = @ \o ch.c,
                                  !.ev = Append(@, Event("generation-chunk", ch.c))]
                   ELSE d
         IN IF ch.f \in {"stop", "length"} THEN [d1 EXCEPT !.fin = TRUE] ELSE d1

\* lines 916-961: one line
ProcessLine(d, line) ==
    IF line = <<>> THEN d
    ELSE IF line[1].t # "data" THEN d
    ELSE LET json == Tail(line)
         IN IF json = <<Tok("done")>> THEN [d EXCEPT !.fin = TRUE]
            ELSE LET r == ParseSse(json)
                 IN IF r.ok THEN OnChunk(d, r.choices) ELSE OnParseError(d)

\* the lines after the one that finishes are processed too (not what the
\* code does)
RECURSIVE DrainNoBreak(_)
DrainNoBreak(d) ==
    LET pos == FindLf(d.buf)
    IN IF pos = 0 THEN d
       ELSE DrainNoBreak(ProcessLine([d EXCEPT !.buf = SubSeq(@, pos + 1, Len(@))],
                                     Trim(SubSeq(d.buf, 1, pos - 1))))

\* lines 912-962: the complete lines of the buffer, until one finishes
RECURSIVE Drain(_)
Drain(d) ==
    LET pos == FindLf(d.buf)
    IN IF pos = 0 THEN d
       ELSE LET line == Trim(SubSeq(d.buf, 1, pos - 1))
                d1 == ProcessLine([d EXCEPT !.buf = SubSeq(@, pos + 1, Len(@))],
                                  line)
            IN IF d1.fin THEN d1 ELSE Drain(d1)

GReturn(kind) == gPc' = "done" /\ gRet' = kind

\* lines 806-869: load the conversation and its messages, build the payload
GenBegin ==
    /\ gPc = "idle"
    /\ \E ok \in BOOLEAN :
         IF ok THEN gPc' = "send" /\ UNCHANGED gRet
         ELSE GReturn("DbError")
    /\ UNCHANGED <<sent, wire, received, buffer, accumulated, finished, gEvents,
                   messages, supVars, logVars, dlVars, ragVars>>

\* the request is answered with a body
GenSendOk ==
    \E r \in Bodies :
        /\ sent' = r /\ wire' = r
        /\ gPc' = "stream"
        /\ UNCHANGED <<gRet, gEvents, messages>>

\* a failed request emits a completion event and stores a message all the
\* same (not what the code does)
GenSendFailedCompletes ==
    /\ gPc = "send"
    /\ \/ GenSendOk
       \/ /\ GReturn("HttpError")
          /\ gEvents' = Append(gEvents, Event("generation-complete", <<>>))
          /\ messages' = Append(messages, <<>>)
          /\ UNCHANGED <<sent, wire>>
    /\ UNCHANGED <<received, buffer, accumulated, finished,
                   supVars, logVars, dlVars, ragVars>>

\* lines 871-901: send the request; a connection failure and a non-success
\* status return an error, the latter after a "generation-error" event
GenSend ==
    /\ gPc = "send"
    /\ \/ GenSendOk
       \/ \E r \in {"refused", "unreachable", "status"} :
            /\ IF r = "status"
               THEN /\ GReturn("HttpError")
                    /\ gEvents' = Append(gEvents, Event("generation-error", <<>>))
               ELSE /\ GReturn(IF r = "refused" THEN "NotRunning"
                                                ELSE "ConnectFailed")
                    /\ UNCHANGED gEvents
            /\ UNCHANGED <<sent, wire, messages>>
    /\ UNCHANGED <<received, buffer, accumulated, finished,
                   supVars, logVars, dlVars, ragVars>>

\* lines 905-968: one stream.next().await; a read of some of the bytes left
\* is decoded, added to the buffer and the buffer's complete lines processed
GenRead ==
    /\ gPc = "stream"
    /\ wire # <<>>
    /\ \E n \in 1..Len(wire) :
         LET text == Utf8Lossy(SubSeq(wire, 1, n))
             d == Drain([buf |-> buffer \o text, acc |-> accumulated,
                         ev |-> gEvents, fin |-> finished])
         IN /\ wire' = SubSeq(wire, n + 1, Len(wire))
            /\ received' = received \o text
            /\ buffer' = d.buf
            /\ accumulated' = d.acc
            /\ gEvents' = d.ev
            /\ finished' = d.fin
            /\ gPc' = IF d.fin THEN "save" ELSE "stream"
    /\ UNCHANGED <<sent, messages, gRet, supVars, logVars, dlVars, ragVars>>

\* a failed read is taken for the end of the response (not what the code
\* does)
GenReadErrorCompletes ==
    /\ gPc = "stream"
    /\ gPc' = "save"
    /\ UNCHANGED <<sent, wire, received, buffer, accumulated, finished, gEvents,
                   messages, gRet, supVars, logVars, dlVars, ragVars>>

\* line 906: the read fails
GenReadError ==
    /\ gPc = "stream"
    /\ GReturn("ReadError")
    /\ UNCHANGED <<sent, wire, received, buffer, accumulated, finished, gEvents,
                   messages, supVars, logVars, dlVars, ragVars>>

\* line 905: the server has closed the response
GenClosed ==
    /\ gPc = "stream"
    /\ wire = <<>>
    /\ gPc' = "save"
    /\ UNCHANGED <<sent, wire, received, buffer, accumulated, finished, gEvents,
                   messages, gRet, supVars, logVars, dlVars, ragVars>>

\* the completion event is emitted before the last fragment event (not what
\* the code does)
GenSaveEarly ==
    /\ gPc = "save"
    /\ messages' = Append(messages, accumulated)
    /\ gEvents' = IF gEvents = <<>>
                  THEN <<Event("generation-complete", accumulated)>>
                  ELSE SubSeq(gEvents, 1, Len(gEvents) - 1)
                       \o <<Event("generation-complete", accumulated),
                            gEvents[Len(gEvents)]>>
    /\ GReturn("Ok")
    /\ UNCHANGED <<sent, wire, received, buffer, accumulated, finished,
                   supVars, logVars, dlVars, ragVars>>

\* lines 975-988: store the assistant message, emit "generation-complete"
GenSave ==
    /\ gPc = "save"
    /\ \E ok \in BOOLEAN :
         IF ok
         THEN /\ messages' = Append(messages, accumulated)
              /\ gEvents' = Append(gEvents, Event("generation-complete", accumulated))
              /\ GReturn("Ok")
         ELSE /\ GReturn("DbError")
              /\ UNCHANGED <<messages, gEvents>>
    /\ UNCHANGED <<sent, wire, received, buffer, accumulated, finished,
                   supVars, logVars, dlVars, ragVars>>

InitGen ==
    /\ gPc = "idle"
    /\ sent = <<>>
    /\ wire = <<>>
    /\ received = <<>>
    /\ buffer = <<>>
    /\ accumulated = <<>>
    /\ finished = FALSE
    /\ gEvents = <<>>
    /\ messages = <<>>
    /\ gRet = "none"

NextGen ==
    \/ GenBegin
    \/ GenSend
    \/ GenRead
    \/ GenReadError
    \/ GenClosed
    \/ GenSave

\* ======================================================== rag ingestion
\* rag.rs, rag_ingest_text on one dataset, one call at a time.  A character
\* of the text is an integer: CR, LF, or its position in the text for any
\* other character, so that equal chunks are equal ranges.
CR == -1
LF == 0

\* a text of n characters that begins with k "\r\n" pairs (cut short, and so
\* ending with a lone "\r", when n < 2k is odd)
RawText(n, k) ==
    [i \in 1..n |-> IF i <= 2 * k THEN (IF i % 2 = 1 THEN CR ELSE LF) ELSE i]

\* the lengths of the texts ingested: around the multiples of 100
TextLens == {n \in 0..MaxTextLen : n % 100 \in {0, 1, 99}}
Texts == {RawText(n, k) : n \in TextLens, k \in 0..MaxCrlf}

\* line 327, t.replace("\r\n", "\n"), on the characters lo..hi of t: every
\* "\r" that a "\n" follows is dropped
RECURSIVE Replace(_, _, _)
Replace(t, lo, hi) ==
    IF lo > hi THEN <<>>
    ELSE IF lo = hi
    THEN IF t[lo] = CR /\ lo < Len(t) /\ t[lo + 1] = LF THEN <<>> ELSE <<t[lo]>>
    ELSE LET mid == (lo + hi) \div 2
         IN Replace(t, lo, mid) \o Replace(t, mid + 1, hi)

\* line 324
max == 1200
overlap == 200

\* the window ends one character early (not what the code does)
WindowEndShort(i, len) == Min(i + max - 1, len)

\* line 330: usize::min(i + max, chars.len())
WindowEnd(i, len) == Min(i + max, len)

\* the next window starts where this one ended (not what the code does)
NextStartNoOverlap(end) == end

\* line 334: end.saturating_sub(overlap)
NextStart(end) == IF end >= overlap THEN end - overlap ELSE 0

\* a file of the dataset: absent, written, or cut short by a failed write
NoFileYet == [state |-> "absent", data |-> <<>>]
Written(data) == [state |-> "ok", data |-> data]
CutShort == [state |-> "partial", data |-> <<>>]

\* the vectors the embedding server may return for one input
EmbVectors == {<<1, 0>>, <<0, 1>>}

RReturn(kind) == rPc' = "idle" /\ rRet' = kind

\* lines 322-328: rag_ingest_text is entered; chunking begins
IngestBegin(text) ==
    /\ rPc = "idle"
    /\ rPc' = "chunk"
    /\ rText' = text
    /\ chars' = Replace(text, 1, Len(text))
    /\ ri' = 0
    /\ chunks' = <<>>
    /\ vectors' = <<>>
    /\ filesBefore' = <<chunksFile, embedsFile>>
    /\ UNCHANGED <<chunksFile, embedsFile, rRet, qryVars, regVars,
                   supVars, logVars, dlVars, genVars>>

\* lines 320-328: the rag_ingest_text command
RagIngestText(text) ==
    /\ IngestBegin(text)
    /\ UNCHANGED scrVars

\* lines 329-335: one turn of the loop
ChunkStep ==
    /\ rPc = "chunk"
    /\ IF ri < Len(chars)
       THEN LET end == WindowEnd(ri, Len(chars))
            IN /\ chunks' = Append(chunks, SubSeq(chars, ri + 1, end))
               /\ IF end = Len(chars)
                  THEN rPc' = "embed" /\ UNCHANGED ri
                  ELSE ri' = NextStart(end) /\ UNCHANGED rPc
       ELSE rPc' = "embed" /\ UNCHANGED <<ri, chunks>>
    /\ UNCHANGED <<rText, chars, vectors, chunksFile, embedsFile, filesBefore,
                   rRet, qryVars, regVars,
                   scrVars, supVars, logVars, dlVars, genVars>>

\* the vector count is not compared with the chunk count (not what the code
\* does)
CheckSizeNever(vs) == TRUE

\* line 362
CheckSize(vs) == Len(vs) = Len(chunks)

\* lines 345-362: the embeddings request; the request, the status or the
\* decoding of the answer may fail; m vectors come back
RagEmbed ==
    /\ rPc = "embed"
    /\ \/ \E e \in {"RequestFailed", "EmbeddingsError", "DecodeFailed"} :
            RReturn(e) /\ UNCHANGED vectors
       \/ \E m \in 0..(Len(chunks) + 1) : \E vs \in [1..m -> EmbVectors] :
            /\ vectors' = vs
            /\ IF CheckSize(vs)
               THEN rPc' = "write_chunks" /\ UNCHANGED rRet
               ELSE RReturn("EmbeddingSizeMismatch")
    /\ UNCHANGED <<rText, chars, ri, chunks, chunksFile, embedsFile, filesBefore,
                   qryVars, regVars,
                   scrVars, supVars, logVars, dlVars, genVars>>

\* the chunks are added to those already in chunks.json (not what the code
\* does)
RagWriteChunksAppend ==
    /\ rPc = "write_chunks"
    /\ \/ /\ chunksFile' = Written(chunksFile.data \o chunks)
          /\ rPc' = "write_embeds"
          /\ UNCHANGED rRet
       \/ /\ chunksFile' \in {chunksFile, CutShort}
          /\ RReturn("WriteFailed")
    /\ dirExists' = TRUE
    /\ UNCHANGED <<rText, chars, ri, chunks, vectors, embedsFile, filesBefore,
                   qryVars, registered, regRet,
                   scrVars, supVars, logVars, dlVars, genVars>>

\* lines 365-368: write chunks.json (chunks_json_path creates the dataset's
\* directory when it is missing); fs::write creates or truncates the file
\* and then writes, and may fail at either
RagWriteChunks ==
    /\ rPc = "write_chunks"
    /\ \/ /\ chunksFile' = Written(chunks)
          /\ rPc' = "write_embeds"
          /\ UNCHANGED rRet
       \/ /\ chunksFile' \in {chunksFile, CutShort}
          /\ RReturn("WriteFailed")
    /\ dirExists' = TRUE
    /\ UNCHANGED <<rText, chars, ri, chunks, vectors, embedsFile, filesBefore,
                   qryVars, registered, regRet,
                   scrVars, supVars, logVars, dlVars, genVars>>

\* lines 369-372: write embeddings.json, return the number of chunks
RagWriteEmbeds ==
    /\ rPc = "write_embeds"
    /\ \/ /\ embedsFile' = Written(vectors)
          /\ RReturn("Ok")
       \/ /\ embedsFile' \in {embedsFile, CutShort}
          /\ RReturn("WriteFailed")
    /\ UNCHANGED <<rText, chars, ri, chunks, vectors, chunksFile, filesBefore,
                   qryVars, regVars,
                   scrVars, supVars, logVars, dlVars, genVars>>

InitRag ==
    /\ rPc = "idle"
    /\ rText = <<>>
    /\ chars = <<>>
    /\ ri = 0
    /\ chunks = <<>>
    /\ vectors = <<>>
    /\ chunksFile = NoFileYet
    /\ embedsFile = NoFileYet
    /\ filesBefore = <<NoFileYet, NoFileYet>>
    /\ rRet = "none"

\* the chunker under every text
NextChunk ==
    \/ \E text \in Texts : RagIngestText(text)
    \/ ChunkStep

\* ingestion of a text of no, one or two chunks
IngestTexts == {RawText(n, 0) : n \in {0, 1, max + 100}}

NextRag ==
    \/ \E text \in IngestTexts : RagIngestText(text)
    \/ ChunkStep
    \/ RagEmbed
    \/ RagWriteChunks
    \/ RagWriteEmbeds

\* -------------------------------------------------------------- scrape
\* rag.rs, rag_scrape_url.  A URL string is <<host, path>>: the site scraped
\* is host "a" with the pages /, /1, ..; host "b" is another site.  Path
\* NoPath is the string that ends after the host ("https://a"), path 0 is
\* "/", path k is "/k".
NoPath == -1
NoDepth == -1

\* url::Url::parse(u) followed by to_string(), and what reqwest's get(u)
\* requests: a URL with no path has the path "/"
Serialize(u) == <<u[1], IF u[2] = NoPath THEN 0 ELSE u[2]>>

\* Url::host_str
HostStr(u) == u[1]

\* lines 296-311: the links a page may hold, made absolute and serialized,
\* sorted and without repetition
AllLinks ==
    [k \in 1..(MaxPath + 2) |-> IF k <= MaxPath + 1 THEN <<"a", k - 1>>
                                                    ELSE <<"b", 0>>]

\* args.base_url as the caller types it
BaseUrls == {<<"a", NoPath>>, <<"a", 0>>, <<"a", 1>>}

\* line 531: args.max_depth.unwrap_or(1).min(3)
MaxDepthOf(arg) == IF arg = NoDepth THEN 1 ELSE Min(arg, 3)

Visit(u, d) == [url |-> u, depth |-> d]

\* lines 561-572: of the links numbered I, in order, push those of the base
\* URL's host that are not in seen
Queue(stack, I, base, seen, d) ==
    LET F[k \in 0..Len(AllLinks)] ==
          IF k = 0 THEN stack
          ELSE IF /\ k \in I
                  /\ HostStr(Serialize(base)) = HostStr(AllLinks[k])
                  /\ AllLinks[k] \notin seen
               THEN Append(F[k - 1], Visit(AllLinks[k], d))
               ELSE F[k - 1]
    IN F[Len(AllLinks)]

\* lines 547-549, 325-327: the text of all_text: for every page in it a line
\* feed, the marker, a line feed, the page's text and two line feeds (the
\* marker and the text one character each)
RECURSIVE Pieces(_)
Pieces(us) ==
    IF us = <<>> THEN <<>> ELSE <<LF, 1, LF, 1, LF, LF>> \o Pieces(Tail(us))

TextOf(us) ==
    LET t == Pieces(us) IN [i \in 1..Len(t) |-> IF t[i] = LF THEN LF ELSE i]

\* lines 530-535: the call
ScrapeUrl(base, arg) ==
    /\ sPc = "idle"
    /\ rPc = "idle"
    /\ sPc' = "loop"
    /\ sBase' = base
    /\ sArg' = arg
    /\ visited' = {}
    /\ to_visit' = <<Visit(base, 0)>>
    /\ all_text' = <<>>
    /\ UNCHANGED <<fetched, sRet, rPc, rText, chars, ri, chunks, vectors,
                   chunksFile, embedsFile, filesBefore, rRet, qryVars, regVars,
                   supVars, logVars, dlVars, genVars>>

\* lines 537-580: one turn of the loop: pop an entry; skip it when it is too
\* deep or visited; else fetch its text (a failure skips the links) and, below
\* the greatest depth, fetch its links and push them (a failure to fetch the
\* links pushes none, as a page without links does)
ScrapeVisit ==
    /\ sPc = "loop"
    /\ to_visit # <<>>
    /\ LET top == to_visit[Len(to_visit)]
           rest == SubSeq(to_visit, 1, Len(to_visit) - 1)
           deep == MaxDepthOf(sArg)
       IN IF top.depth > deep \/ top.url \in visited
          THEN /\ to_visit' = rest
               /\ UNCHANGED <<visited, all_text, fetched>>
          ELSE /\ visited' = visited \cup {top.url}
               /\ fetched' = Append(fetched, top)
               /\ \E page \in {"text", "blank", "failed"} :
                    /\ all_text' = IF page = "text" THEN Append(all_text, top.url)
                                                    ELSE all_text
                    /\ IF page # "failed" /\ top.depth < deep
                       THEN \E I \in SUBSET (1..Len(AllLinks)) :
                              to_visit' = Queue(rest, I, sBase,
                                                visited \cup {top.url}, top.depth + 1)
                       ELSE to_visit' = rest
    /\ UNCHANGED <<sPc, sBase, sArg, sRet, rPc, rText, chars, ri, chunks, vectors,
                   chunksFile, embedsFile, filesBefore, rRet, qryVars, regVars,
                   supVars, logVars, dlVars, genVars>>

\* lines 582-590: the worklist is empty: without text return an error, else
\* enter rag_ingest_text with all_text
ScrapeEnd ==
    /\ sPc = "loop"
    /\ to_visit = <<>>
    /\ IF all_text = <<>>
       THEN /\ sPc' = "done"
            /\ sRet' = "NoContent"
            /\ UNCHANGED <<rPc, rText, chars, ri, chunks, vectors, chunksFile,
                           embedsFile, filesBefore, rRet, qryVars, regVars,
                           supVars, logVars, dlVars, genVars>>
       ELSE /\ sPc' = "ingest"
            /\ IngestBegin(TextOf(all_text))
            /\ UNCHANGED sRet
    /\ UNCHANGED <<sBase, sArg, visited, to_visit, all_text, fetched>>

\* lines 587-594: rag_ingest_text has returned: return its error, or Ok
ScrapeReturn ==
    /\ sPc = "ingest"
    /\ rPc = "idle"
    /\ sPc' = "done"
    /\ sRet' = rRet
    /\ UNCHANGED <<sBase, sArg, visited, to_visit, all_text, fetched,
                   rPc, rText, chars, ri, chunks, vectors, chunksFile,
                   embedsFile, filesBefore, rRet, qryVars, regVars,
                   supVars, logVars, dlVars, genVars>>

InitScrape ==
    /\ sPc = "idle"
    /\ sBase = <<"a", NoPath>>
    /\ sArg = NoDepth
    /\ visited = {}
    /\ to_visit = <<>>
    /\ all_text = <<>>
    /\ fetched = <<>>
    /\ sRet = "none"

NextScrape ==
    \/ \E base \in BaseUrls, arg \in {NoDepth} \cup (0..MaxDepthArg) :
         ScrapeUrl(base, arg)
    \/ ScrapeVisit
    \/ ScrapeEnd
    \/ ScrapeReturn
    \/ ChunkStep
    \/ RagEmbed
    \/ RagWriteChunks
    \/ RagWriteEmbeds

\* --------------------------------------------------------------- query
\* the vectors the embedding server may return for a query
QueryVectors == EmbVectors \cup {<<0, 0>>}

\* lines 431-436: cosine; the vectors of the model have norm 0 or 1, so that
\* the square roots and the quotient are exact
Cosine(a, b) ==
    LET n == Min(Len(a), Len(b))
        sum[j \in 0..n] ==
            IF j = 0 THEN [dot |-> 0, na |-> 0, nb |-> 0]
            ELSE [dot |-> sum[j - 1].dot + a[j] * b[j],
                  na |-> sum[j - 1].na + a[j] * a[j],
                  nb |-> sum[j - 1].nb + b[j] * b[j]]
        sqrt(x) == CHOOSE r \in 0..x : r * r = x
    IN IF sum[n].na = 0 \/ sum[n].nb = 0 THEN 0
       ELSE sum[n].dot \div (sqrt(sum[n].na) * sqrt(sum[n].nb))

\* lines 438-443: the index and the score of every stored embedding (no
\* score of the model is NaN, the filter drops none)
Pairs(q, es) == [i \in 1..Len(es) |-> [i |-> i, score |-> Cosine(q, es[i])]]

\* a pair is put before the pairs of the same score (not what the code does)
RECURSIVE InsertBeforeTies(_, _)
InsertBeforeTies(p, sorted) ==
    IF sorted = <<>> THEN <<p>>
    ELSE IF Head(sorted).score > p.score
         THEN <<Head(sorted)>> \o InsertBeforeTies(p, Tail(sorted))
         ELSE <<p>> \o sorted

\* line 444: sort_by is stable, a pair stays behind the earlier pairs of the
\* same score
RECURSIVE Insert(_, _)
Insert(p, sorted) ==
    IF sorted = <<>> THEN <<p>>
    ELSE IF Head(sorted).score >= p.score
         THEN <<Head(sorted)>> \o Insert(p, Tail(sorted))
         ELSE <<p>> \o sorted

\* line 444: pairs.sort_by(|a,b| b.1.partial_cmp(&a.1)...), descending score
RECURSIVE SortByScore(_)
SortByScore(ps) ==
    IF ps = <<>> THEN <<>>
    ELSE Insert(ps[Len(ps)], SortByScore(SubSeq(ps, 1, Len(ps) - 1)))

\* line 445: take(args.k)
TopK(ps, k) == SubSeq(SortByScore(ps), 1, Min(k, Len(ps)))

NoResult == [kind |-> "none", hits |-> <<>>]
QReturn(kind, hits) == qPc' = "idle" /\ qRet' = [kind |-> kind, hits |-> hits]

\* line 404: the call
RagQuery(k) ==
    /\ qPc = "idle"
    /\ qPc' = "q_load"
    /\ qK' = k
    /\ qChunks' = <<>>
    /\ qEmbeds' = <<>>
    /\ qEmb' = <<>>
    /\ qRet' = NoResult
    /\ UNCHANGED <<rPc, rText, chars, ri, chunks, vectors, chunksFile,
                   embedsFile, filesBefore, rRet, regVars,
                   scrVars, supVars, logVars, dlVars, genVars>>

\* lines 406-414: the paths (dataset_dir creates the directory), the two
\* files read and parsed; nothing to rank when a file is missing or no
\* embedding is stored
RagQueryLoad ==
    /\ qPc = "q_load"
    /\ dirExists' = TRUE
    /\ IF chunksFile.state = "absent" \/ embedsFile.state = "absent"
       THEN QReturn("Ok", <<>>) /\ UNCHANGED <<qChunks, qEmbeds>>
       ELSE IF chunksFile.state = "partial" \/ embedsFile.state = "partial"
       THEN QReturn("ParseFailed", <<>>) /\ UNCHANGED <<qChunks, qEmbeds>>
       ELSE /\ qChunks' = chunksFile.data
            /\ qEmbeds' = embedsFile.data
            /\ IF embedsFile.data = <<>>
               THEN QReturn("Ok", <<>>)
               ELSE qPc' = "q_embed" /\ UNCHANGED qRet
    /\ UNCHANGED <<qK, qEmb, rPc, rText, chars, ri, chunks, vectors, chunksFile,
                   embedsFile, filesBefore, rRet, registered, regRet,
                   scrVars, supVars, logVars, dlVars, genVars>>

\* lines 416-446: the embedding of the query is requested, whatever k is; the
\* request, the status, the decoding may fail, the answer may hold no
\* embedding; the k best pairs give the hits, chunks[i] panics when there is
\* no chunk i
RagQueryEmbed ==
    /\ qPc = "q_embed"
    /\ \/ \E e \in {"RequestFailed", "EmbeddingsError", "DecodeFailed",
                     "NoEmbedding"} :
            QReturn(e, <<>>) /\ UNCHANGED qEmb
       \/ \E v \in QueryVectors :
            /\ qEmb' = v
            /\ LET topk == TopK(Pairs(v, qEmbeds), qK)
               IN IF \E j \in 1..Len(topk) : topk[j].i > Len(qChunks)
                  THEN QReturn("Panic", <<>>)
                  ELSE QReturn("Ok", [j \in 1..Len(topk) |->
                                        [text |-> qChunks[topk[j].i],
                                         score |-> topk[j].score]])
    /\ UNCHANGED <<qK, qChunks, qEmbeds, rPc, rText, chars, ri, chunks, vectors,
                   chunksFile, embedsFile, filesBefore, rRet, regVars,
                   scrVars, supVars, logVars, dlVars, genVars>>

\* lines 81-96: rag_create_dataset; the id is new, nothing of it is on disk;
\* the directory and the two files holding "[]" are made, then the registry
\* is saved with the new entry
RagCreateDataset ==
    /\ ~registered /\ ~dirExists
    /\ dirExists' = TRUE
    /\ chunksFile' = Written(<<>>)
    /\ embedsFile' = Written(<<>>)
    /\ \/ registered' = TRUE /\ regRet' = "Created"
       \/ UNCHANGED registered /\ regRet' = "CreateFailed"
    /\ UNCHANGED <<rPc, rText, chars, ri, chunks, vectors, filesBefore, rRet,
                   qryVars, scrVars, supVars, logVars, dlVars, genVars>>

\* lines 98-105: rag_delete_dataset; the registry is saved without the id,
\* whether it held it or not, then the directory is made if missing and
\* removed with what it holds
RagDeleteDataset ==
    /\ \/ /\ regRet' = "IoError"
          /\ UNCHANGED <<registered, dirExists, chunksFile, embedsFile>>
       \/ /\ registered' = FALSE
          /\ \/ /\ dirExists' = FALSE
                /\ chunksFile' = NoFileYet
                /\ embedsFile' = NoFileYet
                /\ regRet' = "Ok"
             \/ /\ dirExists' = TRUE
                /\ regRet' = "IoError"
                /\ UNCHANGED <<chunksFile, embedsFile>>
    /\ UNCHANGED <<rPc, rText, chars, ri, chunks, vectors, filesBefore, rRet,
                   qryVars, scrVars, supVars, logVars, dlVars, genVars>>

InitQuery ==
    /\ qPc = "idle"
    /\ qK = 0
    /\ qChunks = <<>>
    /\ qEmbeds = <<>>
    /\ qEmb = <<>>
    /\ qRet = NoResult
    /\ registered = FALSE
    /\ dirExists = FALSE
    /\ regRet = "none"

\* lines 329-335: the chunks of the characters cs from offset i on
RECURSIVE ChunksFrom(_, _)
ChunksFrom(cs, i) ==
    IF i >= Len(cs) THEN <<>>
    ELSE LET end == WindowEnd(i, Len(cs))
         IN <<SubSeq(cs, i + 1, end)>>
            \o (IF end = Len(cs) THEN <<>> ELSE ChunksFrom(cs, NextStart(end)))

\* the texts a dataset queried was ingested from: no, one, two, three chunks
QueryTexts == {RawText(n, 0) : n \in {0, 1, max + 1, 2 * max - overlap + 1}}

\* a dataset as ingestions have left it: chunks.json of one text,
\* embeddings.json of as many vectors or, after an ingestion that failed
\* between the two writes, of another number of them; or an id never used
InitStored ==
    /\ rPc = "idle"
    /\ rText = <<>>
    /\ chars = <<>>
    /\ ri = 0
    /\ chunks = <<>>
    /\ vectors = <<>>
    /\ rRet = "none"
    /\ filesBefore = <<NoFileYet, NoFileYet>>
    /\ qPc = "idle"
    /\ qK = 0
    /\ qChunks = <<>>
    /\ qEmbeds = <<>>
    /\ qEmb = <<>>
    /\ qRet = NoResult
    /\ regRet = "none"
    /\ InitScrape
    /\ \/ /\ registered = FALSE
          /\ dirExists = FALSE
          /\ chunksFile = NoFileYet
          /\ embedsFile = NoFileYet
       \/ /\ registered = TRUE
          /\ dirExists = TRUE
          /\ \E text \in QueryTexts :
                chunksFile \in {Written(ChunksFrom(Replace(text, 1, Len(text)), 0)),
                                CutShort}
          /\ \E m \in 0..3 : \E vs \in [1..m -> EmbVectors] :
                embedsFile \in {Written(vs), CutShort}

\* rag_query, call after call, on a stored dataset
NextQuery ==
    \/ \E k \in 0..MaxK : RagQuery(k)
    \/ RagQueryLoad
    \/ RagQueryEmbed

\* one command at a time is in progress
Quiet == rPc = "idle" /\ qPc = "idle"

\* the text ingested by the commands on one dataset id
KeyTexts == {RawText(0, 0), RawText(1, 0)}

\* the commands on one dataset id, one at a time
NextKeys ==
    \/ Quiet /\ RagCreateDataset
    \/ Quiet /\ RagDeleteDataset
    \/ Quiet /\ \E text \in KeyTexts : RagIngestText(text)
    \/ ChunkStep
    \/ RagEmbed
    \/ RagWriteChunks
    \/ RagWriteEmbeds
    \/ Quiet /\ \E k \in 0..MaxK : RagQuery(k)
    \/ RagQueryLoad
    \/ RagQueryEmbed

\* ------------------------------------------------------- specifications
InitStat ==
    /\ cPc = "idle"
    /\ cRet = NoReport

InitSup ==
    /\ proc = NoProc
    /\ procLock = NoThread
    /\ status = [p \in Pids |-> "unborn"]
    /\ pc = [t \in Threads |-> "idle"]
    /\ child = [t \in Threads |-> NoProc]
    /\ probe = [t \in Threads |-> "none"]
    /\ calls = [t \in Threads |-> 0]
    /\ ret = [t \in Threads |-> Ret("none", NoProc)]
    /\ emitted = [t \in Threads |-> <<>>]
    /\ destroyed = FALSE
    /\ binaryExists = FALSE
    /\ modelExists = FALSE
    /\ InitStat

InitLog ==
    /\ logBuffer = <<>>
    /\ pushed = <<>>
    /\ nread = [p \in Pids |-> [s \in Streams |-> 0]]
    /\ budget = [p \in Pids |-> [s \in Streams |-> 0]]

Init == InitSup /\ InitLog /\ InitDl /\ InitGen /\ InitRag /\ InitQuery /\ InitScrape

Next ==
    \/ \E t \in Starters : StartCheck(t)
    \/ \E t \in Starters : StartPrecheck(t)
    \/ \E t \in Starters : StartSpawn(t)
    \/ \E t \in Starters : StartStore(t)
    \/ \E t \in Starters : StartGraceCheck(t)
    \/ \E t \in Starters : StartRunning(t)
    \/ \E t \in Stoppers : StopTake(t)
    \/ \E t \in Stoppers : StopKill(t)
    \/ \E t \in Stoppers : StopWait(t)
    \/ \E t \in Stoppers : StopPush(t)
    \/ WindowDestroyed
    \/ InstallBinary
    \/ InstallModel
    \/ \E p \in Pids : ProcExit(p)

Spec == Init /\ [][Next]_vars

\* the supervisor with every user of its two locks: start, stop, the status
\* command, the reader threads, get_logs_snapshot and clear_logs.  It starts
\* with the server running, the log cleared, and one more line to come on
\* each of the server's pipes.
InitLive ==
    /\ proc = 1
    /\ procLock = NoThread
    /\ status = [p \in Pids |-> IF p = 1 THEN "alive" ELSE "unborn"]
    /\ pc = [t \in Threads |-> "idle"]
    /\ child = [t \in Threads |-> IF t = "s1" THEN 1 ELSE NoProc]
    /\ probe = [t \in Threads |-> IF t = "s1" THEN "running" ELSE "none"]
    /\ calls = [t \in Threads |-> IF t = "s1" THEN 1 ELSE 0]
    /\ ret = [t \in Threads |-> IF t = "s1" THEN Ret("Running", 1)
                                            ELSE Ret("none", NoProc)]
    /\ emitted = [t \in Threads |-> IF t = "s1" THEN <<"starting", "running">>
                                                ELSE <<>>]
    /\ destroyed = FALSE
    /\ binaryExists = TRUE
    /\ modelExists = TRUE
    /\ InitStat
    /\ logBuffer = <<>>
    /\ pushed = <<>>
    /\ nread = [p \in Pids |-> [s \in Streams |->
                   IF p = 1 THEN MaxLines - 1 ELSE 0]]
    /\ budget = [p \in Pids |-> [s \in Streams |-> IF p = 1 THEN 1 ELSE 0]]
    /\ InitDl
    /\ InitGen
    /\ InitRag
    /\ InitQuery
    /\ InitScrape

NextLive ==
    \/ \E t \in Starters : StartCheck(t)
    \/ \E t \in Starters : StartPrecheck(t)
    \/ \E t \in Starters : StartSpawn(t)
    \/ \E t \in Starters : StartStore(t)
    \/ \E t \in Starters : StartGraceCheck(t)
    \/ \E t \in Starters : StartRunning(t)
    \/ \E t \in StopCmds : StopTake(t)
    \/ \E t \in StopCmds : StopKill(t)
    \/ \E t \in StopCmds : StopWait(t)
    \/ \E t \in StopCmds : StopPush(t)
    \/ \E p \in Pids : ProcExit(p)
    \/ CheckCall
    \/ CheckLocked
    \/ GetLogsSnapshot
    \/ ClearLogs
    \/ \E s \in Streams : ReaderPush(1, s)

\* a thread that can take a step takes it: a command that was called runs
\* on, std::sync::Mutex hands a free lock to a thread blocked on it, wait()
\* returns once the child has exited, and a killed process exits.  No
\* command has to be called, and no kill or wait has to fail.
Fairness ==
    /\ \A t \in Starters :
         /\ WF_vars(StartPrecheck(t))
         /\ WF_vars(StartSpawn(t))
         /\ WF_vars(StartStore(t))
         /\ WF_vars(StartGraceCheck(t))
         /\ WF_vars(StartRunning(t))
    /\ \A t \in StopCmds :
         /\ WF_vars(StopKill(t))
         /\ WF_vars(StopWait(t) /\ pc'[t] = "k_push")
         /\ WF_vars(StopPush(t))
    /\ WF_vars(CheckLocked)
    /\ \A p \in Pids : WF_vars(status[p] = "killed" /\ ProcExit(p))

SpecLive == InitLive /\ [][NextLive]_vars /\ Fairness

\* rag_scrape_url, one call
SpecScrape == Init /\ [][NextScrape]_vars

\* the download manager alone
SpecDl == Init /\ [][NextDl]_vars

\* the download manager when its caller starts a download only once the
\* transfer before it has ended: a resume after an interrupted transfer
DownloadPackIdle ==
    /\ \A b \in Tasks : ~Active(b)
    /\ DownloadPack

NextDlSeq ==
    \/ DownloadPackIdle
    \/ CancelDownload
    \/ \E b \in Tasks : TaskMetadata(b)
    \/ \E b \in Tasks : TaskSend(b)
    \/ \E b \in Tasks : TaskOpen(b)
    \/ \E b \in Tasks : TaskChunk(b)
    \/ \E b \in Tasks : TaskFinish(b)

SpecDlSeq == Init /\ [][NextDlSeq]_vars

\* the same, polled by download_status
NextDlPoll ==
    \/ NextDlSeq
    \/ DownloadStatus

SpecDlPoll == Init /\ [][NextDlPoll]_vars

\* The log buffer under its writers.  The reader threads write only the log
\* variables and no supervisor action reads them, so they are left out of
\* Next and run here, from the state in which start() has returned with
\* process 1 running and the stdout reader has pushed n lines, n being 0,
\* LOG_CAPACITY - 1 or LOG_CAPACITY.
Prefills == {0, LOG_CAPACITY - 1, LOG_CAPACITY}

InitRunning ==
    /\ proc = 1
    /\ procLock = NoThread
    /\ status = [p \in Pids |-> IF p = 1 THEN "alive" ELSE "unborn"]
    /\ pc = [t \in Threads |-> "idle"]
    /\ child = [t \in Threads |-> IF t = "s1" THEN 1 ELSE NoProc]
    /\ probe = [t \in Threads |-> IF t = "s1" THEN "running" ELSE "none"]
    /\ calls = [t \in Threads |-> IF t = "s1" THEN 1 ELSE 0]
    /\ ret = [t \in Threads |-> IF t = "s1" THEN Ret("Running", 1)
                                            ELSE Ret("none", NoProc)]
    /\ emitted = [t \in Threads |-> IF t = "s1" THEN <<"starting", "running">>
                                                ELSE <<>>]
    /\ destroyed = FALSE
    /\ binaryExists = TRUE
    /\ modelExists = TRUE
    /\ InitStat
    /\ \E n \in Prefills :
         /\ logBuffer = [i \in 1..n |-> Line("stdout", 1, i)]
         /\ pushed = [i \in 1..n |-> Line("stdout", 1, i)]
         /\ nread = [p \in Pids |-> [s \in Streams |->
                        IF p = 1 /\ s = "stdout" THEN n ELSE 0]]
    /\ budget = [p \in Pids |-> [s \in Streams |->
                    IF p = 1 THEN MaxLines ELSE 0]]
    /\ InitDl
    /\ InitGen
    /\ InitRag
    /\ InitQuery
    /\ InitScrape

NextLog ==
    \/ \E p \in Pids, s \in Streams : ReaderPush(p, s)
    \/ ClearLogs
    \/ \E t \in Stoppers : StopTake(t)
    \/ \E t \in Stoppers : StopKill(t)
    \/ \E t \in Stoppers : StopWait(t)
    \/ \E t \in Stoppers : StopPush(t)
    \/ WindowDestroyed
    \/ \E p \in Pids : ProcExit(p)

SpecLog == InitRunning /\ [][NextLog]_vars

\* one call of generate_text
SpecGen == Init /\ [][NextGen]_vars

\* the chunker of rag_ingest_text
SpecChunk == Init /\ [][NextChunk]_vars

\* rag_ingest_text, call after call
SpecRag == Init /\ [][NextRag]_vars

\* rag_query on a stored dataset
InitDataset == InitSup /\ InitLog /\ InitDl /\ InitGen /\ InitStored

SpecQuery == InitDataset /\ [][NextQuery]_vars

\* create, delete, ingest and query on one dataset id
SpecKeys == Init /\ [][NextKeys]_vars

\* ================================================================ claims
OkKinds == {"AlreadyRunning", "Running", "StopNoop", "Stopped"}

\* thread t makes a call in this step
Calls(t) == pc[t] = "idle" /\ calls'[t] = calls[t] + 1
\* thread t returns in this step from a call that took more than one step
Returns(t) == pc[t] # "idle" /\ pc'[t] = "idle"

\* C1: when the start() calls have returned (binary and model present, no
\* stop() called, no probe failed), every live spawned subprocess is the one
\* held in the tracked handle, so at most one is alive.
C1_OneLiveSubprocess ==
    ( /\ \A t \in Starters : pc[t] = "idle" /\ probe[t] # "err"
      /\ \A t \in Stoppers : calls[t] = 0
      /\ binaryExists /\ modelExists )
    => \A p \in Pids : Live(p) => proc = p

\* C2: stop() with nothing tracked returns success and changes neither the
\* handle, nor the log buffer, nor any process, and emits no status event;
\* so does every further stop().
C2_StopIdempotent ==
    [][\A t \in Stoppers :
         (Calls(t) /\ proc = NoProc)
         => /\ ret'[t] = Ret("StopNoop", NoProc)
            /\ pc'[t] = "idle"
            /\ emitted'[t] = <<>>
            /\ UNCHANGED <<proc, procLock, status, logBuffer, pushed>>]_vars

C2_Witness ==
    /\ calls["k1"] >= 2
    /\ ret["k1"] = Ret("StopNoop", NoProc)
    /\ \A p \in Pids : status[p] = "unborn"

\* C3: when stop() returns success for a process it found tracked, that
\* process has exited, the handle is empty, the line "[info] llama-server
\* stopped" is the last line of the log buffer, and "stopping" was emitted
\* before "stopped".
C3_StopIsSynchronous ==
    [][\A t \in Stoppers :
         (Returns(t) /\ ret'[t].kind \in OkKinds)
         => /\ ret'[t] = Ret("Stopped", child[t])
            /\ ~Live(child[t])'
            /\ status'[child[t]] = "reaped"
            /\ proc' = NoProc
            /\ logBuffer' # <<>>
            /\ logBuffer'[Len(logBuffer')] = StoppedLine
            /\ pushed' = Append(pushed, StoppedLine)
            /\ emitted'[t] = <<"stopping", "stopped">>]_vars

C3_Witness ==
    \E t \in Stoppers :
        /\ pc[t] = "idle"
        /\ ret[t].kind = "Stopped"
        /\ logBuffer # <<>>

\* C4: a start() whose liveness probe shows the tracked process still running
\* spawns nothing, leaves the handle unchanged and returns the tracked pid.
C4_AlreadyRunning ==
    [][\A t \in Starters :
         (Calls(t) /\ proc # NoProc /\ probe'[t] = "running")
         => /\ ret'[t] = Ret("AlreadyRunning", proc)
            /\ pc'[t] = "idle"
            /\ emitted'[t] = <<>>
            /\ UNCHANGED <<proc, status>>]_vars

C4_Witness ==
    \E t \in Starters :
        /\ pc[t] = "idle"
        /\ ret[t].kind = "AlreadyRunning"
        /\ ret[t].pid = proc
        /\ Live(proc)

\* C5: past the liveness check, start() fails with BinaryMissing when the
\* binary is absent and with ModelMissing when only the model is absent; in
\* both cases it spawns nothing, stores no handle and emits no event.
C5_MissingFiles ==
    [][\A t \in Starters :
         (pc[t] = "s_pre" /\ pc'[t] # "s_pre")
         => /\ ~binaryExists => ret'[t] = Ret("BinaryMissing", NoProc)
            /\ (binaryExists /\ ~modelExists) => ret'[t] = Ret("ModelMissing", NoProc)
            /\ (~binaryExists \/ ~modelExists)
               => /\ pc'[t] = "idle"
                  /\ emitted'[t] = <<>>
                  /\ child'[t] = NoProc
                  /\ UNCHANGED <<proc, status>>]_vars

C5_Witness ==
    /\ ret["s1"] = Ret("BinaryMissing", NoProc)
    /\ ret["s2"] = Ret("ModelMissing", NoProc)
    /\ \A p \in Pids : status[p] = "unborn"

\* C6: at the re-check after the grace interval (no probe has failed), if the spawned process has exited start() returns ImmediateExit and
\* the handle is cleared; otherwise start() goes on to report the spawned pid
\* and the handle tracks that process.
C6_GraceCheck ==
    [][\A t \in Starters :
         ( /\ pc[t] = "s_sleep" /\ pc'[t] # "s_sleep"
           /\ \A u \in Starters : probe'[u] # "err" )
         => IF ~Live(child[t])
            THEN /\ pc'[t] = "idle"
                 /\ ret'[t].kind = "ImmediateExit"
                 /\ proc' = NoProc
            ELSE /\ pc'[t] = "s_run"
                 /\ proc' = child[t]]_vars

\* C7: once the stop() called by the handler of the window's Destroyed event
\* has returned success (no start() in flight, no probe failed), no
\* subprocess the supervisor spawned is tracked or alive.
C7_NothingLeftAfterTeardown ==
    ( /\ pc[Teardown] = "idle" /\ calls[Teardown] = 1
      /\ ret[Teardown].kind \in OkKinds
      /\ \A t \in Starters : pc[t] = "idle" /\ probe[t] # "err" )
    => /\ proc = NoProc
       /\ \A p \in Pids : ~Live(p)

\* the last k elements of q
LastN(q, k) == SubSeq(q, Len(q) - k + 1, Len(q))

\* C8: under the two readers, stop() and clear_logs(), the log buffer holds at
\* most LOG_CAPACITY lines and is, in push order, the most recent
\* min(n, LOG_CAPACITY) of the n lines pushed since the last clear (empty
\* right after a clear).
C8_BoundedFifo ==
    /\ Len(logBuffer) <= LOG_CAPACITY
    /\ logBuffer = LastN(pushed, IF Len(pushed) < LOG_CAPACITY
                                 THEN Len(pushed) ELSE LOG_CAPACITY)

C8_Witness ==
    /\ Len(pushed) > LOG_CAPACITY
    /\ Len(logBuffer) = LOG_CAPACITY
    /\ logBuffer[LOG_CAPACITY] = StoppedLine
    /\ \E i \in 1..LOG_CAPACITY : logBuffer[i].tag = "stderr"
    /\ logBuffer[1] # Line("stdout", 1, 1)

\* C9: when a transfer whose flag cancel(key) has set ends without an error,
\* neither the partial file nor the final file exists and the entry's status
\* is canceled.
C9_CancelLeavesNothing ==
    [][\A b \in Tasks :
         ( /\ flag[b]
           /\ Active(b)
           /\ task'[b].pc \in {"done", "canceled"} )
         => /\ partPath' = NoFile
            /\ finalPath' = NoFile
            /\ entry'.status = "canceled"]_vars

\* C10: a transfer that resumed from a partial file of length L > 0 and
\* completed leaves a final file that is byte for byte the artifact.
C10_ResumeGivesSameFile ==
    \A b \in Tasks :
        (task[b].pc = "done" /\ task[b].resume > 0 /\ finalPath # NoFile)
        => inode[finalPath] = Artifact

\* C11: download_pack called when the final file exists records the entry
\* done (total and written the pack's size, no error, a fresh flag), returns
\* "already_installed", starts no transfer task and touches no file; every
\* such call records that same entry.
C11_AlreadyInstalled ==
    [][(nbegins' = nbegins + 1 /\ finalPath # NoFile)
       => /\ StateOf(entry') = [status |-> "done", total |-> SizeBytes,
                                written |-> SizeBytes, error |-> ""]
          /\ ~flag'[entry'.cancel]
          /\ dlRet' = "already_installed"
          /\ UNCHANGED <<task, inode, partPath, finalPath, installed>>]_vars

C11_Witness ==
    /\ dlRet = "already_installed"
    /\ entry.status = "done"
    /\ finalPath # NoFile
    /\ nbegins = MaxBegins
    /\ task[nbegins].pc = "none"

\* C12: when a transfer task meets a transport error or a write error (a
\* failure to open the partial file aside), the task ends, the entry's status
\* is error with a message, and the partial file is neither deleted nor
\* renamed.
C12_ErrorKeepsPartial ==
    [][\A b \in Tasks :
         (task[b].ioerr = "" /\ task'[b].ioerr \notin {"", "open failed"})
         => /\ task'[b].pc = "error"
            /\ entry'.status = "error"
            /\ entry'.error # ""
            /\ UNCHANGED <<partPath, finalPath, inode>>]_vars

\* C13: download_status and cancel_download for a key that has no entry
\* return "not_found" and change neither the map nor any flag.
C13_UnknownKey ==
    [][(entry.status = "absent" /\ nbegins' = nbegins)
       => /\ UNCHANGED <<entry, flag, task>>
          /\ statusRet' # statusRet => statusRet'.kind = "not_found"
          /\ dlRet' # dlRet => dlRet' = "not_found"]_vars

C13_Witness ==
    /\ statusRet.kind = "not_found"
    /\ dlRet = "not_found"
    /\ entry = NoEntry
    /\ \A b \in Tasks : ~flag[b]

\* C14: of two successive successful polls by download_status, the second
\* never reports fewer written bytes than the first.
C14_WrittenNeverDecreases ==
    [][(statusRet.kind = "ok" /\ statusRet'.kind = "ok")
       => statusRet'.state.written >= statusRet.state.written]_vars

\* the complete lines of a text, trimmed
RECURSIVE SplitLines(_)
SplitLines(text) ==
    LET pos == FindLf(text)
    IN IF pos = 0 THEN <<>>
       ELSE <<Trim(SubSeq(text, 1, pos - 1))>>
            \o SplitLines(SubSeq(text, pos + 1, Len(text)))

IsData(line) == line # <<>> /\ line[1].t = "data"
IsSentinel(line) == IsData(line) /\ Tail(line) = <<Tok("done")>>
\* a data record whose JSON decodes, and one whose JSON does not
IsValid(line) == IsData(line) /\ ParseSse(Tail(line)).ok
IsMalformed(line) == IsData(line) /\ ~IsSentinel(line) /\ ~IsValid(line)
FirstChoice(line) == ParseSse(Tail(line)).choices[1]
HasChoice(line) == IsValid(line) /\ ParseSse(Tail(line)).choices # <<>>
Finishes(line) ==
    \/ IsSentinel(line)
    \/ HasChoice(line) /\ FirstChoice(line).f \in {"stop", "length"}

\* the lines up to the first that finishes the stream
UpToFinish(lines) ==
    IF \E i \in 1..Len(lines) : Finishes(lines[i])
    THEN SubSeq(lines, 1, CHOOSE i \in 1..Len(lines) :
                             /\ Finishes(lines[i])
                             /\ \A j \in 1..(i - 1) : ~Finishes(lines[j]))
    ELSE lines

\* the content fragments of the valid records among the lines, in order
RECURSIVE ValidFragments(_)
ValidFragments(lines) ==
    IF lines = <<>> THEN <<>>
    ELSE (IF HasChoice(Head(lines)) /\ FirstChoice(Head(lines)).c # <<>>
          THEN <<FirstChoice(Head(lines)).c>> ELSE <<>>)
         \o ValidFragments(Tail(lines))

\* the payloads of the fragment events among the events
Fragments(ev) ==
    LET chunkEv == SelectSeq(ev, LAMBDA e : e.type = "generation-chunk")
    IN [i \in 1..Len(chunkEv) |-> chunkEv[i].payload]

Decoded == UpToFinish(SplitLines(received))

C17_RequestFailure ==
    [][(gPc = "send" /\ gPc' = "done")
       => /\ gRet' \in {"NotRunning", "ConnectFailed", "HttpError"}
          /\ \A i \in 1..Len(gEvents') : gEvents'[i].type = "generation-error"
          /\ messages' = <<>>
          /\ received' = <<>>]_vars

C17_Witness ==
    /\ gPc = "done" /\ gRet = "HttpError"
    /\ gEvents = <<Event("generation-error", <<>>)>>
    /\ messages = <<>>

\* the chunks put end to end, each but the first without its first 200
\* characters
Stitch(cs) ==
    IF cs = <<>> THEN <<>>
    ELSE cs[1] \o Flatten([j \in 1..(Len(cs) - 1) |->
                              SubSeq(cs[j + 1], 201, Len(cs[j + 1]))])

\* C18: when the chunking of a text has ended, the chunks cover the normalized
\* text (stitched by their overlaps they are the text, none for the empty
\* text), the last 200 characters of every chunk are the first 200 of the
\* next, and the last chunk ends where the text ends.
C18_ChunksCover ==
    rPc = "embed"
    => /\ chars = Replace(rText, 1, Len(rText))
       /\ Stitch(chunks) = chars
       /\ chars # <<>> => chunks # <<>>
       /\ \A j \in 1..Len(chunks) : chunks[j] # <<>>
       /\ \A j \in 1..(Len(chunks) - 1) :
            /\ Len(chunks[j]) >= 200 /\ Len(chunks[j + 1]) >= 200
            /\ LastN(chunks[j], 200) = SubSeq(chunks[j + 1], 1, 200)
       /\ chunks # <<>>
          => LastN(chars, Len(chunks[Len(chunks)])) = chunks[Len(chunks)]

C18_Witness ==
    /\ rPc = "embed"
    /\ Len(chunks) = 3
    /\ Len(chars) < Len(rText)
    /\ Len(chunks[3]) < 1200

\* C19: each turn of the loop on a text of len characters appends chunk j,
\* the min(1200, len - 1000 j) characters from offset 1000 j, and is the last
\* turn exactly when that chunk reaches the end of the text; a turn that is
\* not the last moves the offset forward, short of the end, so the loop
\* ends; a text of 1300 characters gives the chunks [0,1200) and [1000,1300).
C19_FixedWindows ==
    /\ [][rPc = "chunk"
          => LET j == Len(chunks)
                 len == Len(chars)
             IN IF ri < len
                THEN /\ ri = 1000 * j
                     /\ chunks' = Append(chunks,
                                    SubSeq(chars, 1000 * j + 1,
                                           1000 * j + Min(1200, len - 1000 * j)))
                     /\ IF 1000 * j + 1200 >= len
                        THEN rPc' = "embed"
                        ELSE /\ rPc' = "chunk"
                             /\ ri' = 1000 * (j + 1)
                             /\ ri' > ri /\ ri' < len
                ELSE rPc' = "embed" /\ chunks' = chunks]_vars
    /\ []((rPc = "embed" /\ Len(chars) = 1300)
          => chunks = <<SubSeq(chars, 1, 1200), SubSeq(chars, 1001, 1300)>>)

C19_Witness ==
    /\ rPc = "embed"
    /\ Len(chars) = 1300
    /\ Len(chunks) = 2
    /\ Len(chunks[2]) = 300

\* C20: when the embeddings answer has a number of vectors that is not the
\* number of chunks, rag_ingest_text returns the size mismatch error and the
\* two files of the dataset are what they were when it was called.
C20_SizeMismatch ==
    [][( /\ rPc = "embed"
         /\ ~(rPc' = "idle" /\ rRet' \in {"RequestFailed", "EmbeddingsError",
                                          "DecodeFailed"})
         /\ Len(vectors') # Len(chunks) )
       => /\ rPc' = "idle"
          /\ rRet' = "EmbeddingSizeMismatch"
          /\ <<chunksFile', embedsFile'>> = filesBefore
          /\ UNCHANGED <<chunksFile, embedsFile>>]_vars

C20_Witness ==
    /\ rPc = "idle"
    /\ rRet = "EmbeddingSizeMismatch"
    /\ Len(vectors) # Len(chunks)
    /\ chunksFile.state = "ok" /\ embedsFile.state = "ok"
    /\ chunksFile.data # chunks

\* C21: when an ingestion into a dataset whose two files were written whole
\* returns an error, and no file was cut short by the failed write itself,
\* the chunks and the embeddings stored are those of before the call and are
\* as many as each other.
C21_FailureLeavesNoChange ==
    [][( /\ rPc # "idle" /\ rPc' = "idle" /\ rRet' # "Ok"
         /\ filesBefore[1].state = "ok" /\ filesBefore[2].state = "ok"
         /\ Len(filesBefore[1].data) = Len(filesBefore[2].data)
         /\ chunksFile'.state # "partial" /\ embedsFile'.state # "partial" )
       => /\ <<chunksFile', embedsFile'>> = filesBefore
          /\ Len(chunksFile'.data) = Len(embedsFile'.data)]_vars

\* C22: when rag_ingest_text has returned Ok, chunks.json holds the chunks of
\* the text of that call and nothing else, embeddings.json holds the vectors
\* the server returned for them and nothing else, and the two have the same
\* length.
C22_IngestReplaces ==
    (rPc = "idle" /\ rRet = "Ok")
    => /\ chunksFile = Written(chunks)
       /\ embedsFile = Written(vectors)
       /\ Len(chunksFile.data) = Len(embedsFile.data)
       /\ Stitch(chunksFile.data) = Replace(rText, 1, Len(rText))

\* a successful ingestion of two chunks into a dataset that held one chunk
\* of another text
C22_Witness ==
    /\ rPc = "idle" /\ rRet = "Ok"
    /\ filesBefore[1].state = "ok" /\ filesBefore[2].state = "ok"
    /\ Len(filesBefore[1].data) = 1
    /\ Len(filesBefore[2].data) = 1
    /\ Len(chunksFile.data) = 2
    /\ embedsFile.data[1] # filesBefore[2].data[1]

\* C26: a thread that is in the grace sleep of start() or in the wait for the
\* process's exit of stop() does not hold the process handle's mutex.
C26_NoLockAcrossSuspension ==
    \A t \in Threads : pc[t] \in {"s_sleep", "k_wait"} => procLock # t

\* the decoding of the whole body received in one read
OneRead == Drain([buf |-> Utf8Lossy(sent), acc |-> <<>>, ev |-> <<>>,
                  fin |-> FALSE])

\* C27: when the read loop has ended without a read error, the events
\* emitted, the accumulated text and the finished flag are those of the body
\* decoded in one read, however the body was cut into reads.
C27_SplitIndependent ==
    (gPc = "save" /\ (finished \/ wire = <<>>))
    => /\ gEvents = OneRead.ev
       /\ accumulated = OneRead.acc
       /\ finished = OneRead.fin

\* C28: the stream is finished exactly when a line received is the sentinel
\* or a record with the finish reason "stop" or "length" (no other reason
\* finishes it); no line after that one gives a fragment, and once finished
\* nothing more is read and no fragment emitted.
C28_FinishStops ==
    /\ [](finished <=> \E i \in 1..Len(SplitLines(received)) :
                           Finishes(SplitLines(received)[i]))
    /\ [](finished => gPc \in {"save", "done"})
    /\ [](Fragments(gEvents) = ValidFragments(Decoded))
    /\ [][finished => /\ wire' = wire
                      /\ received' = received
                      /\ buffer' = buffer
                      /\ accumulated' = accumulated
                      /\ Fragments(gEvents') = Fragments(gEvents)]_vars

\* finished by a line that a valid record follows in the same read, with
\* bytes of the body still unread
C28_Witness ==
    /\ gPc = "done" /\ gRet = "Ok"
    /\ finished
    /\ wire # <<>>
    /\ Len(SplitLines(received)) > Len(Decoded)
    /\ HasChoice(SplitLines(received)[Len(Decoded) + 1])
    /\ Len(Fragments(gEvents)) = 1

\* the content fragments of every choice of the valid records among the lines
RECURSIVE AllFragments(_)
AllFragments(lines) ==
    IF lines = <<>> THEN <<>>
    ELSE (IF IsValid(Head(lines))
          THEN LET some == SelectSeq(ParseSse(Tail(Head(lines))).choices,
                                     LAMBDA ch : ch.c # <<>>)
               IN [i \in 1..Len(some) |-> some[i].c]
          ELSE <<>>)
         \o AllFragments(Tail(lines))

\* C29: the fragment events are, one each and in order, the content
\* fragments of all the choices of the valid records decoded, and the
\* accumulated text is their concatenation.
C29_EveryChoiceEmitted ==
    /\ Fragments(gEvents) = AllFragments(Decoded)
    /\ accumulated = Flatten(AllFragments(Decoded))

RECURSIVE IsSubseq(_, _)
IsSubseq(a, b) ==
    IF a = <<>> THEN TRUE
    ELSE IF b = <<>> THEN FALSE
    ELSE IF Head(a) = Head(b) THEN IsSubseq(Tail(a), Tail(b))
    ELSE IsSubseq(a, Tail(b))

\* C30: the fragments emitted so far are a subsequence, in the order of the
\* stream, of the content fragments of the records received: none is out of
\* order, none is emitted twice.
C30_InOrder ==
    IsSubseq(Fragments(gEvents), AllFragments(SplitLines(received)))

C30_Witness ==
    /\ gPc = "done" /\ gRet = "Ok"
    /\ Len(Fragments(gEvents)) = 2
    /\ Fragments(gEvents)[1] # Fragments(gEvents)[2]
    /\ Len(AllFragments(SplitLines(received))) = 3

\* rag_query returns in this step
QReturns == qPc # "idle" /\ qPc' = "idle"

\* C23: a call of rag_query with k = 0, or on a dataset that stores no
\* embedding, returns Ok with no hit, whatever the embedding server does
\* (the dataset's files being whole, and a chunk stored for every embedding).
C23_EmptyNotError ==
    [][( /\ QReturns
         /\ chunksFile.state # "partial" /\ embedsFile.state # "partial"
         /\ Len(chunksFile.data) >= Len(embedsFile.data)
         /\ (qK = 0 \/ embedsFile.data = <<>>) )
       => qRet' = [kind |-> "Ok", hits |-> <<>>]]_vars

\* the stored embedding whose chunk is the text of hit h
IndexOf(h) == CHOOSE i \in 1..Len(qChunks) : qChunks[i] = h.text

\* C24: the hits of a query that returned Ok are at most k, each a stored
\* chunk with the cosine of its embedding and the query's, no chunk twice, in
\* non-increasing score order with equal scores in index order, and no chunk
\* left out scores more than a hit unless fewer than k score at all; with two
\* stored embeddings equal to the query's and one orthogonal, the first two
\* hits are the two equal ones in index order and the orthogonal one is third
\* or absent.
C24_RankedHits ==
    (qPc = "idle" /\ qRet.kind = "Ok" /\ qEmb # <<>>)
    => LET hits == qRet.hits
           score(i) == Cosine(qEmb, qEmbeds[i])
           idx == [j \in 1..Len(hits) |-> IndexOf(hits[j])]
           same == {i \in 1..Len(qEmbeds) : qEmbeds[i] = qEmb}
       IN /\ Len(hits) = Min(qK, Len(qEmbeds))
          /\ \A j \in 1..Len(hits) :
               /\ \E i \in 1..Len(qChunks) : qChunks[i] = hits[j].text
               /\ idx[j] <= Len(qEmbeds)
               /\ hits[j].score = score(idx[j])
          /\ \A j1, j2 \in 1..Len(hits) :
               j1 < j2 => /\ hits[j1].score >= hits[j2].score
                          /\ idx[j1] # idx[j2]
                          /\ hits[j1].score = hits[j2].score
                             => idx[j1] < idx[j2]
          /\ \A i \in 1..Len(qEmbeds) :
               (\A j \in 1..Len(hits) : idx[j] # i)
               => \A j \in 1..Len(hits) :
                    \/ hits[j].score > score(i)
                    \/ hits[j].score = score(i) /\ idx[j] < i
          /\ ( /\ Len(qEmbeds) = 3 /\ Cardinality(same) = 2
               /\ \A i \in (1..3) \ same : score(i) = 0 )
             => /\ qK >= 1 => idx[1] \in same
                /\ qK >= 2 => (idx[2] \in same /\ idx[1] < idx[2])
                /\ qK >= 3 => idx[3] \notin same

\* top 2 of three stored embeddings, the first orthogonal to the query's and
\* the other two equal to it
C24_Witness ==
    /\ qPc = "idle" /\ qRet.kind = "Ok"
    /\ qK = 2
    /\ Len(qEmbeds) = 3 /\ Len(qChunks) = 3
    /\ qEmbeds[1] # qEmb /\ qEmbeds[2] = qEmb /\ qEmbeds[3] = qEmb
    /\ Len(qRet.hits) = 2
    /\ qRet.hits[1] = [text |-> qChunks[2], score |-> 1]
    /\ qRet.hits[2] = [text |-> qChunks[3], score |-> 1]

\* rag_create_dataset runs in this step
Creates == ~dirExists /\ regRet' \in {"Created", "CreateFailed"}

\* C25: while the dataset id is not in the registry, ingest, query and delete
\* return NotFound (delete may fail on the registry's file instead), and no
\* step of them changes the dataset's directory or its two files.
C25_UnknownKeyNotFound ==
    [][(~registered /\ ~registered' /\ ~Creates)
       => /\ (rPc # "idle" /\ rPc' = "idle") => rRet' = "NotFound"
          /\ QReturns => qRet'.kind = "NotFound"
          /\ regRet' # regRet => regRet' \in {"NotFound", "IoError"}
          /\ UNCHANGED <<dirExists, chunksFile, embedsFile>>]_vars

\* C33: the step that ends a transfer task, whatever ends it, leaves the
\* entry's status error, canceled or done, not running.
C33_StoppedTaskRecorded ==
    [][\A b \in Tasks :
         (Active(b) /\ ~Active(b)')
         => entry'.status \in {"error", "canceled", "done"}]_vars

\* C35: the re-check after the grace interval lets start() go on to report
\* Running (no other start() called, one stop() at most per caller, no probe,
\* kill or wait failed) only when
\* the handle tracks the process this start() spawned and no stop() has
\* killed it.
C35_RunningIsTracked ==
    [][\A t \in Starters :
         ( /\ pc[t] = "s_sleep" /\ pc'[t] = "s_run"
           /\ probe'[t] # "err"
           /\ \A u \in Starters \ {t} : calls[u] = 0
           /\ \A k \in Stoppers : /\ calls[k] <= 1
                                  /\ ret[k].kind \notin {"KillFailed", "WaitFailed"} )
         => /\ proc' = child[t]
            /\ status'[child[t]] \notin {"killed", "reaped"}]_vars

\* C36: when stop() returns an error because the kill or the wait failed,
\* the handle still tracks the process it failed to stop.
C36_FailedStopKeepsHandle ==
    [][\A t \in Stoppers :
         ( /\ pc[t] # "idle" /\ pc'[t] = "idle"
           /\ ret'[t].kind \in {"KillFailed", "WaitFailed"} )
         => proc' = ret'[t].pid]_vars

\* C38: at most one transfer task of the key is active at a time.
C38_OneTransferPerKey ==
    Cardinality({b \in Tasks : Active(b)}) <= 1

\* C39: between commands, embeddings.json holds no more embeddings than
\* chunks.json holds chunks, and no query has indexed a chunk that is not
\* there.
C39_EveryEmbeddingHasChunk ==
    /\ ( /\ rPc = "idle"
         /\ chunksFile.state = "ok" /\ embedsFile.state = "ok" )
       => Len(embedsFile.data) <= Len(chunksFile.data)
    /\ qRet.kind # "Panic"

\* C40: a read that fails ends generate_text with the read error, with no
\* assistant message stored and no completion event emitted, whatever was
\* emitted before; a response that ends without a finishing line is stored
\* and completed with the text accumulated.
C40_ReadErrorNoCompletion ==
    /\ [][(gPc = "stream" /\ gPc' # "stream")
          => \/ /\ gPc' = "done" /\ gRet' = "ReadError"
                /\ messages' = <<>>
                /\ gEvents' = gEvents
             \/ /\ gPc' = "save"
                /\ finished' \/ wire' = <<>>]_vars
    /\ [](gRet = "ReadError"
          => /\ messages = <<>>
             /\ \A i \in 1..Len(gEvents) : gEvents[i].type = "generation-chunk")
    /\ []((gPc = "done" /\ gRet = "Ok")
          => /\ messages = <<accumulated>>
             /\ gEvents[Len(gEvents)] = Event("generation-complete", accumulated)
             /\ \A i \in 1..(Len(gEvents) - 1) :
                  gEvents[i].type = "generation-chunk")

\* a read fails after two fragments have been emitted
C40_Witness ==
    /\ gPc = "done" /\ gRet = "ReadError"
    /\ Len(gEvents) = 2
    /\ accumulated # <<>>
    /\ messages = <<>>
    /\ wire # <<>>

\* C31: after cancel_download has returned Ok, and until download_pack is
\* called again, at most one more chunk is written to the partial file; and a
\* step of a task whose flag is set neither writes nor marks the entry done
\* when it has a chunk to look at.
C31_CancelBounded ==
    /\ [](afterCancel <= 1)
    /\ [][\A b \in Tasks :
            (flag[b] /\ task[b].pc = "loop" /\ task[b].body # <<>>
             /\ task'[b] # task[b])
            => /\ task'[b].pc = "canceled"
               /\ inode' = inode
               /\ entry'.status = "canceled"]_vars

\* C32: the step that marks the entry done at the end of a transfer leaves
\* the artifact at the final path and no partial file, and emits the
\* "model-installed" event.
C32_DoneAfterRename ==
    [][\A b \in Tasks :
         (task[b].pc = "loop" /\ task'[b].pc = "done")
         => /\ entry'.status = "done"
            /\ finalPath' # NoFile
            /\ partPath' = NoFile
            /\ installed' = installed + 1]_vars

\* C37: the supervisor's locks never deadlock.  Time and again no thread
\* is waiting for a lock and no lock is held: the LLAMA_PROCESS lock is free
\* (so a stop that held it has got the LOG_BUFFER lock for its line, or has
\* returned an error), no start waits to store its child or to re-check it,
\* and the status command is not waiting to report.  So every thread that
\* requested a lock has acquired it.
C37_LocksAcquired ==
    []<>( /\ procLock = NoThread
          /\ cPc = "idle"
          /\ \A t \in Starters : pc[t] \notin {"s_store", "s_sleep"} )

\* a stop holds the lock and waits for the killed child while a start waits
\* to re-check its own child and the status command waits to report
C37_Witness ==
    /\ procLock = "k1" /\ pc["k1"] = "k_wait" /\ status[child["k1"]] = "killed"
    /\ \E t \in Starters : pc[t] = "s_sleep"
    /\ cPc = "c_lock"

\* no page's text is requested deeper than min(max_depth, 3), max_depth
\* being 1 when the caller gives none
FetchedWithinDepth ==
    \A i \in DOMAIN fetched :
        fetched[i].depth <= Min(IF sArg = NoDepth THEN 1 ELSE sArg, 3)

\* no URL is requested for its text twice
FetchedOnce ==
    \A i, j \in DOMAIN fetched :
        i < j => Serialize(fetched[i].url) # Serialize(fetched[j].url)

\* every entry of the worklist is of the base URL's host
QueuedSameHost ==
    \A i \in DOMAIN to_visit :
        HostStr(Serialize(to_visit[i].url)) = HostStr(Serialize(sBase))

\* what is left to do: the URL strings not yet visited, and the worklist
LoopMeasure ==
    (Len(AllLinks) + 1 - Cardinality(visited)) * (Len(AllLinks) + 1) + Len(to_visit)

\* every turn of the worklist loop lowers the measure, which is never negative
LoopEnds ==
    /\ [](LoopMeasure >= 0)
    /\ [][(sPc = "loop" /\ <<visited, to_visit>>' # <<visited, to_visit>>)
            => LoopMeasure' < LoopMeasure]_vars

\* C34: scraping is bounded and ends: no URL is fetched deeper than
\* min(max_depth, 3), each URL is fetched for its text at most once, only
\* links of the base URL's host are queued, and the worklist loop ends.
C34_ScrapeBounded ==
    /\ [](FetchedWithinDepth /\ FetchedOnce /\ QueuedSameHost)
    /\ LoopEnds
====
